---- MODULE Spec2Model ----
(***************************************************************************)
(* Model of the IPC channel protocol of vs/base/parts/ipc (ChannelServer,  *)
(* ChannelClient) over one ordered, reliable transport.                    *)
(*                                                                         *)
(* Promises are WinJS promises (TPromise): completion, error and cancel    *)
(* notify the registered callbacks synchronously, `then` on an already     *)
(* completed promise runs its callback synchronously, cancel() on a        *)
(* settled promise is a no-op, and cancel() on a pending promise runs its  *)
(* cancel action and then rejects it with the error "Canceled".            *)
(***************************************************************************)
EXTENDS Integers, Sequences, FiniteSets, TLC

\* ---------------------------------------------------------------- bounds
MaxCalls == 2        \* calls made on the client, where the remote side only answers
MaxRemoteCalls == 1  \* calls made on the client, where the remote operation is followed
MaxProgress == 1     \* progress values one remote operation may produce
MaxOrderedProgress == 2  \* the same, where only progress and settlement are followed
MaxHandshakeCalls == 1   \* calls made on the client, alongside event streams
MaxStreams == 1      \* event streams obtained from the client
MaxSubscribes == 2   \* subscriptions made on the event streams
MaxEvents == 2       \* values the channel's event may produce
MaxServers == 2      \* ChannelServers constructed on the transport, one after the other
MaxRegistrations == 2  \* registerChannel calls made on one ChannelServer
MaxStaleSubscribes == 1  \* subscriptions made where the server may not know the channel
MaxPeerRequests == 2 \* requests of the peer's ChannelClient on a shared transport
MaxAdapterUses == 2  \* calls, and listens, made on a delayed or next-tick channel
MaxRouted == 2       \* calls and listens made on routed channels
MaxIds == 6          \* request ids in any of the specifications
MaxResults == 5      \* results a file search engine produces in one search
MaxBatchSize == 3    \* the batchSize given to doFileSearch
MaxAdds == 4         \* addItem and addItems calls made on one BatchedCollector
MaxSearches == 3     \* sorted file searches made on one SearchService

Subscribers == {"s1", "s2"}
ChannelNames == {"ch"}
\* a channel name that no owner registers
UnregisteredNames == {"other"}
\* the IChannel objects an owner may register
Implementations == {"a", "b"}
\* how the promise returned by channel.call may settle
Outcomes == {"success", "error", "errobj"}
\* how it settles when it is canceled while pending: by default with the error
\* "Canceled"; its own cancel action may complete it first
CancelOutcomes == {"canceled", "success"}

\* ------------------------------------------------------- enum MessageType
RequestPromise == 0
RequestPromiseCancel == 1
ResponseInitialize == 2
ResponsePromiseSuccess == 3
ResponsePromiseProgress == 4
ResponsePromiseError == 5
ResponsePromiseErrorObj == 6
RequestEventListen == 7
RequestEventDispose == 8
ResponseEventFire == 9

isResponse(messageType) == messageType >= ResponseInitialize

RequestTypes == {RequestPromise, RequestPromiseCancel, RequestEventListen, RequestEventDispose}
ResponseTypes == {ResponseInitialize, ResponsePromiseSuccess, ResponsePromiseProgress,
                  ResponsePromiseError, ResponsePromiseErrorObj, ResponseEventFire}

\* enum State
Uninitialized == "Uninitialized"
Idle == "Idle"

\* the connections followed when several are, and the ids they may announce
Connections == {"k1", "k2"}
AnnouncedIds == {"c1", "c2"}
\* what a router returns when it picks no client
NoConnection == ""

\* ------------------------------------------------------------ data values
NoId == -1
\* a stack is a string of lines, the array of its lines, or absent
NoStack == [form |-> "undefined", lines |-> <<>>]
StackString(lines) == [form |-> "string", lines |-> lines]
\* stack.split('\n')
SplitStack(stack) == [form |-> "array", lines |-> stack.lines]
Data(k, v, message, name) ==
    [k |-> k, v |-> v, message |-> message, name |-> name, stack |-> NoStack]
NoData == Data("none", 0, "", "")
Val(v) == Data("val", v, "", "")
\* an Error object, with the stack the engine gave it
ErrorValue(message, name) ==
    [k |-> "Error", v |-> 0, message |-> message, name |-> name,
     stack |-> StackString(<<name, "at call">>)]
ObjValue(v) == Data("obj", v, "", "")
CanceledError == ErrorValue("Canceled", "Canceled")
TypeErrorValue == ErrorValue("Cannot read property of undefined", "TypeError")
BoomError == ErrorValue("boom", "Error")

\* IRawRequest / IRawResponse
Msg(type, id, channelName, data) ==
    [type |-> type, id |-> id, channelName |-> channelName, data |-> data]

VARIABLES
    \* ChannelClient
    state,              \* State
    lastRequestId,
    bufferedRequests,   \* ids of the buffered IRequests, in push order
    handlers,           \* ids that have a handler
    activeRequests,     \* ids of the calls whose cancel disposable is tracked
    clientListening,    \* protocolListener is subscribed to protocol.onMessage
    calls,              \* per requestPromise id: the request and its promises
    streams,            \* per requestEvent id: the emitter and its closure
    initListeners,      \* stream ids whose whenInitialized() promise is pending, in order
    \* transport
    c2s,                \* messages the client handed to protocol.send, not yet delivered
    s2c,                \* messages the server handed to protocol.send, not yet delivered
    nSent,              \* <<type, id>> -> how many such messages the client handed to send
    nSrvSent,           \* <<type, id>> -> how many such messages the server has sent
    \* ChannelServer and the channel it hosts
    serverState,        \* "none" | "alive" | "disposed"
    serversCreated,
    channels,           \* channel name -> the registered implementation
    registered,         \* the registerChannel calls made on the server: <<name, channel>>, in order
    srvActiveRequests,  \* id -> kind of the registered disposer
    ops,                \* id -> the promise returned by channel.call
    eventListeners,     \* ids of the forwarders subscribed to the channel's event, in order
    eventsProduced,
    disposerCalls,      \* id -> how often a disposer registered under it was invoked
    srvUncaught,        \* how many exceptions left the server's onMessage uncaught
    \* the environment of the client
    sendThrows,         \* protocol.send of the client's transport throws
    peerRequests,       \* requests the peer's ChannelClient sent on the transport
    \* IPCServer
    ipcChannels,        \* channel name -> the channel registered on the IPCServer
    channelClients,     \* announced id -> the connection whose ChannelClient is registered
    routed,             \* the calls and listens made on routed channels, in order
    connections,        \* connection -> what the IPCServer did with it, when several
                        \* connections are followed: the phase, the announced id, the
                        \* messages in flight from its peer, its ChannelServer and
                        \* ChannelClient pair and the routed requests that reached it
    \* channel adapters
    delayedChannel,     \* a channel made by getDelayedChannel, its promise and its target
    nextTickChannel,    \* a channel made by getNextTickChannel and the channel it wraps
    \* SearchService
    fileSearch,         \* one doFileSearch without sortByScore: the engine's results, the
                        \* batch of doSearch and what the progress callback was given
    collector,          \* one BatchedCollector and what its callback was given
    caches,             \* cacheKey -> (filePattern -> the row stored under it)
    searches            \* the sorted file searches made, in order

clientVars == <<state, lastRequestId, bufferedRequests, handlers, activeRequests,
                clientListening, calls, streams, initListeners>>
serverVars == <<serverState, serversCreated, channels, registered, srvActiveRequests, ops,
                eventListeners, eventsProduced, disposerCalls, srvUncaught>>
adapterVars == <<delayedChannel, nextTickChannel>>
searchVars == <<fileSearch, collector, caches, searches>>
envVars == <<sendThrows, ipcChannels, channelClients, routed, peerRequests, connections,
             adapterVars, searchVars>>
vars == <<clientVars, c2s, s2c, nSent, nSrvSent, serverVars, envVars>>

Ids == 0 .. (MaxIds - 1)

\* ------------------------------------------------------------ helpers
Range(s) == {s[i] : i \in 1 .. Len(s)}
Without(s, x) == SelectSeq(s, LAMBDA e : e # x)
Count(s, P(_)) == Cardinality({i \in 1 .. Len(s) : P(s[i])})
LastIndexOf(s, x) ==
    IF x \in Range(s) THEN CHOOSE i \in 1 .. Len(s) : s[i] = x /\ \A j \in (i + 1) .. Len(s) : s[j] # x
    ELSE 0
RemoveAt(s, i) == IF i = 0 THEN s ELSE SubSeq(s, 1, i - 1) \o SubSeq(s, i + 1, Len(s))
MapSeq(s, F(_)) == [i \in 1 .. Len(s) |-> F(s[i])]

Init ==
    /\ state = Uninitialized
    /\ lastRequestId = 0
    /\ bufferedRequests = <<>>
    /\ handlers = {}
    /\ activeRequests = <<>>
    /\ clientListening = TRUE
    /\ calls = <<>>
    /\ streams = <<>>
    /\ initListeners = <<>>
    /\ c2s = <<>>
    /\ s2c = <<>>
    /\ nSent = [k \in RequestTypes \X Ids |-> 0]
    /\ nSrvSent = [k \in ResponseTypes \X (Ids \cup {NoId}) |-> 0]
    /\ serverState = "none"
    /\ serversCreated = 0
    /\ channels = <<>>
    /\ registered = <<>>
    /\ sendThrows = FALSE
    /\ peerRequests = 0
    /\ delayedChannel = [resolved |-> FALSE, calls |-> <<>>, listens |-> <<>>, produced |-> 0]
    /\ nextTickChannel = [didTick |-> FALSE, timers |-> <<>>, reached |-> <<>>]
    /\ connections = [k \in Connections |->
                        [phase |-> "none", peer |-> FALSE, inbox |-> <<>>, id |-> NoConnection,
                         pair |-> "none", released |-> 0, forwarded |-> <<>>,
                         channels |-> <<>>, answers |-> <<>>]]
    /\ ipcChannels = <<>>
    /\ fileSearch = [phase |-> "none", batchSize |-> 0, emitted |-> <<>>, batch |-> <<>>,
                     reported |-> <<>>]
    /\ collector = [maxBatchSize |-> 0, totalNumberCompleted |-> 0, batch |-> <<>>,
                    batchSize |-> 0, timeoutHandle |-> 0, timers |-> 0, adds |-> 0,
                    added |-> 0, given |-> <<>>, lastOp |-> "none"]
    /\ caches = <<>>
    /\ searches = <<>>
    /\ channelClients = <<>>
    /\ routed = <<>>
    /\ srvActiveRequests = <<>>
    /\ ops = <<>>
    /\ eventListeners = <<>>
    /\ eventsProduced = 0
    /\ disposerCalls = [i \in Ids |-> 0]
    /\ srvUncaught = 0

\* ------------------------------------------------------------ transport
\* the tally after msgs were sent
RECURSIVE Tally(_, _)
Tally(n, msgs) ==
    IF msgs = <<>> THEN n
    ELSE Tally([n EXCEPT ![<<Head(msgs).type, Head(msgs).id>>] = @ + 1], Tail(msgs))

\* protocol.send of each of msgs, in order
ClientSend(msgs) ==
    /\ c2s' = IF sendThrows THEN c2s ELSE c2s \o msgs
    /\ nSent' = Tally(nSent, msgs)
ServerSend(msgs) == s2c' = s2c \o msgs /\ nSrvSent' = Tally(nSrvSent, msgs)
clientOut == <<c2s, nSent>>
serverOut == <<s2c, nSrvSent>>

\* the transport's send starts or stops throwing
SetSendThrows(throws) ==
    /\ sendThrows # throws
    /\ sendThrows' = throws
    /\ UNCHANGED <<clientVars, clientOut, serverOut, serverVars, channelClients, routed,
                   peerRequests, connections, adapterVars, ipcChannels, searchVars>>

\* this.send(raw) returns normally whatever protocol.send does
SendPropagates == ~sendThrows
SendReturns == TRUE
TransportError == ErrorValue("send failed", "Error")
\* the promise of doRequest after its initializer ran this.send
SentCall(call) ==
    IF SendReturns THEN call
    ELSE [call EXCEPT !.st = "rejected", !.result = TransportError]

\* ============================================================ ChannelClient
NewCall(mode, channelName) ==
    [mode |-> mode, channelName |-> channelName, flush |-> (mode = "buffered"),
     flushed |-> FALSE, st |-> "pending", progress |-> <<>>, result |-> NoData,
     cancelled |-> "no"]

RawRequest(id) == Msg(RequestPromise, id, calls[id].channelName, NoData)
\* mutation: every RequestEventListen takes the next unused id
RawListenFresh(id) == Msg(RequestEventListen, lastRequestId, streams[id].channelName, NoData)
RawListen(id) == Msg(RequestEventListen, id, streams[id].channelName, NoData)
RawCancel(id) == Msg(RequestPromiseCancel, id, "", NoData)
RawDispose(id) == Msg(RequestEventDispose, id, "", NoData)

\* the request of call id went through doRequest: its message was handed to send
CallIsSent(id) == calls[id].mode = "direct" \/ calls[id].flushed

\* activeRequest.cancel() sends RequestPromiseCancel: the cancel action of the
\* doRequest promise, reached directly or through flushedRequest.cancel()
CancelSendsDirectOnly(id) == calls[id].st = "pending" /\ calls[id].mode = "direct"
\* mutation: the cancel action also runs for a promise that has settled
CancelSendsSettled(id) == calls[id].mode = "direct" \/ calls[id].flushed
CancelSends(id) ==
    /\ calls[id].st = "pending"
    /\ \/ calls[id].mode = "direct"
       \/ calls[id].mode = "buffered" /\ state # Uninitialized /\ calls[id].flushed

\* the call record after activeRequest.cancel()
CancelledCall(id) ==
    IF calls[id].st # "pending" THEN calls[id]
    ELSE IF calls[id].mode = "direct"
         THEN [calls[id] EXCEPT !.st = "canceled", !.cancelled = "sent"]
         ELSE [calls[id] EXCEPT !.st = "canceled", !.flush = FALSE,
                                !.flushed = IF state # Uninitialized THEN FALSE ELSE @,
                                !.cancelled = IF CallIsSent(id) THEN "sent" ELSE "buffered"]

\* the buffer after the cancel action of a bufferRequest promise
BufferAfterCancel(id) ==
    IF calls[id].st = "pending" /\ calls[id].mode = "buffered" /\ state = Uninitialized
    THEN Without(bufferedRequests, id)
    ELSE bufferedRequests

\* requestPromise takes bufferRequest rather than doRequest
\* mutation: every call is buffered
BuffersAlways == TRUE
Buffers == state = Uninitialized

requestPromise(channelName) ==
    /\ LET id == lastRequestId IN
       /\ lastRequestId' = id + 1
       /\ activeRequests' = Append(activeRequests, id)
       /\ IF Buffers
          THEN /\ calls' = calls @@ (id :> NewCall("buffered", channelName))
               /\ bufferedRequests' = Append(bufferedRequests, id)
               /\ UNCHANGED <<handlers, clientOut>>
          ELSE /\ calls' = calls @@ (id :> SentCall(NewCall("direct", channelName)))
               /\ handlers' = handlers \cup {id}
               /\ ClientSend(<<Msg(RequestPromise, id, channelName, NoData)>>)
               /\ UNCHANGED bufferedRequests
    /\ UNCHANGED <<state, clientListening, streams, initListeners,
                   serverOut, serverVars, envVars>>

\* the caller cancels the promise returned by call(); on a promise that has
\* settled cancel() does nothing
CancelCall(id) ==
    /\ id \in DOMAIN calls
    /\ calls' = [calls EXCEPT ![id] = CancelledCall(id)]
    /\ bufferedRequests' = BufferAfterCancel(id)
    /\ activeRequests' = Without(activeRequests, id)
    /\ ClientSend(IF CancelSends(id) THEN <<RawCancel(id)>> ELSE <<>>)
    /\ UNCHANGED <<state, lastRequestId, handlers, clientListening, streams, initListeners,
                   serverOut, serverVars, envVars>>

NewStream(channelName) ==
    [channelName |-> channelName, subs |-> {}, uninitializedPromise |-> "null",
     subscribes |-> 0, got |-> [s \in Subscribers |-> <<>>]]

requestEventNoIncrement(channelName) ==
    /\ LET id == lastRequestId IN
       /\ lastRequestId' = id
       /\ streams' = streams @@ (id :> NewStream(channelName))
       /\ handlers' = handlers \cup {id}
    /\ UNCHANGED <<state, bufferedRequests, activeRequests, clientListening, calls,
                   initListeners, clientOut, serverOut, serverVars, envVars>>
requestEvent(channelName) ==
    /\ LET id == lastRequestId IN
       /\ lastRequestId' = id + 1
       /\ streams' = streams @@ (id :> NewStream(channelName))
       /\ handlers' = handlers \cup {id}
    /\ UNCHANGED <<state, bufferedRequests, activeRequests, clientListening, calls,
                   initListeners, clientOut, serverOut, serverVars, envVars>>

\* the value of uninitializedPromise after onFirstListenerAdd: the promise
\* returned by whenInitialized().then(...). While Idle, whenInitialized() is
\* already complete, the callback (which nulls the variable and sends) runs
\* inside then(), and the assignment then stores the completed promise.
AfterFirstListenerAdd == IF state = Idle THEN "settled" ELSE "waiting"

\* a listener subscribes to the event returned by listen()
Subscribe(id, s) ==
    /\ id \in DOMAIN streams
    /\ s \notin streams[id].subs
    /\ IF streams[id].subs = {}
       THEN /\ streams' = [streams EXCEPT ![id].subs = {s},
                                          ![id].subscribes = @ + 1,
                                          ![id].uninitializedPromise = AfterFirstListenerAdd]
            /\ IF state = Idle
               THEN ClientSend(<<RawListen(id)>>) /\ UNCHANGED initListeners
               ELSE initListeners' = Append(initListeners, id) /\ UNCHANGED clientOut
       ELSE /\ streams' = [streams EXCEPT ![id].subs = @ \cup {s}, ![id].subscribes = @ + 1]
            /\ UNCHANGED <<clientOut, initListeners>>
    /\ UNCHANGED <<state, lastRequestId, bufferedRequests, handlers, activeRequests,
                   clientListening, calls, serverOut, serverVars, envVars>>

\* mutation: onLastListenerRemove always sends
LastRemoveAlwaysSends(id) == TRUE

\* onLastListenerRemove sends RequestEventDispose
LastRemoveSends(id) == streams[id].uninitializedPromise = "null"

\* uninitializedPromise.cancel(): the callback waiting for the
\* initialization will not run
\* mutation: the cancelled callback still runs
AfterPromiseCancelKept(id) == initListeners
AfterPromiseCancel(id) == Without(initListeners, id)

Unsubscribe(id, s) ==
    /\ id \in DOMAIN streams
    /\ s \in streams[id].subs
    /\ IF streams[id].subs = {s}
       THEN /\ streams' = [streams EXCEPT ![id].subs = {}, ![id].uninitializedPromise = "null"]
            /\ initListeners' = AfterPromiseCancel(id)
            /\ ClientSend(IF LastRemoveSends(id) THEN <<RawDispose(id)>> ELSE <<>>)
       ELSE /\ streams' = [streams EXCEPT ![id].subs = @ \ {s}]
            /\ UNCHANGED <<clientOut, initListeners>>
    /\ UNCHANGED <<state, lastRequestId, bufferedRequests, handlers, activeRequests,
                   clientListening, calls, serverOut, serverVars, envVars>>

\* ------------------------------------------------------------ onMessage
\* new Error(data.message) with name and stack restored from the plain data
\* mutation: the name of the remote error is not restored
ReconstructErrorUnnamed(data) ==
    [ErrorValue(data.message, "Error") EXCEPT !.stack = data.stack]

ReconstructError(data) ==
    [ErrorValue(data.message, data.name) EXCEPT !.stack = data.stack]

IsTerminal(type) ==
    type \in {ResponsePromiseSuccess, ResponsePromiseError, ResponsePromiseErrorObj}

\* the handler doRequest installs for a call, applied to a response
\* mutation: progress is delivered newest first
CallAfterResponseUnordered(id, response) ==
    IF calls[id].st # "pending" THEN calls[id]
    ELSE IF response.type = ResponsePromiseSuccess
         THEN [calls[id] EXCEPT !.st = "resolved", !.result = response.data]
    ELSE IF response.type = ResponsePromiseError
         THEN [calls[id] EXCEPT !.st = "rejected",
                                !.result = ReconstructError(response.data)]
    ELSE IF response.type = ResponsePromiseErrorObj
         THEN [calls[id] EXCEPT !.st = "rejected", !.result = response.data]
    ELSE IF response.type = ResponsePromiseProgress
         THEN [calls[id] EXCEPT !.progress = <<response.data>> \o @]
    ELSE calls[id]

\* mutation: a settled promise settles again
CallAfterResponseAgain(id, response) ==
    IF response.type = ResponsePromiseSuccess
    THEN [calls[id] EXCEPT !.st = "resolved", !.result = response.data]
    ELSE IF response.type = ResponsePromiseError
         THEN [calls[id] EXCEPT !.st = "rejected", !.result = ReconstructError(response.data)]
    ELSE IF response.type = ResponsePromiseErrorObj
         THEN [calls[id] EXCEPT !.st = "rejected", !.result = response.data]
    ELSE IF response.type = ResponsePromiseProgress
         THEN [calls[id] EXCEPT !.progress = Append(@, response.data)]
    ELSE calls[id]
CallAfterResponse(id, response) ==
    IF calls[id].st # "pending" THEN calls[id]
    ELSE IF response.type = ResponsePromiseSuccess
         THEN [calls[id] EXCEPT !.st = "resolved", !.result = response.data]
    ELSE IF response.type = ResponsePromiseError
         THEN [calls[id] EXCEPT !.st = "rejected", !.result = ReconstructError(response.data)]
    ELSE IF response.type = ResponsePromiseErrorObj
         THEN [calls[id] EXCEPT !.st = "rejected", !.result = response.data]
    ELSE IF response.type = ResponsePromiseProgress
         THEN [calls[id] EXCEPT !.progress = Append(@, response.data)]
    ELSE calls[id]

\* the handler requestEvent installs for a stream: emitter.fire(response.data)
StreamAfterResponse(id, response) ==
    [streams[id] EXCEPT !.got = [s \in Subscribers |->
        IF s \in streams[id].subs THEN Append(@[s], response.data) ELSE @[s]]]

\* handlers[response.id](response)
Dispatch(response) ==
    LET id == response.id IN
    IF id \in handlers /\ id \in DOMAIN calls
    THEN /\ calls' = [calls EXCEPT ![id] = CallAfterResponse(id, response)]
         /\ handlers' = IF IsTerminal(response.type) THEN handlers \ {id} ELSE handlers
         /\ activeRequests' = IF calls'[id].st # "pending" THEN Without(activeRequests, id)
                              ELSE activeRequests
         /\ UNCHANGED streams
    ELSE IF id \in handlers /\ id \in DOMAIN streams
    THEN /\ streams' = [streams EXCEPT ![id] = StreamAfterResponse(id, response)]
         /\ UNCHANGED <<calls, handlers, activeRequests>>
    ELSE UNCHANGED <<calls, handlers, activeRequests, streams>>

\* what a listener of onDidInitialize other than the client's own may do
\* while the event fires: nothing, cancel a buffered call, or issue a call
ListenerOps ==
    {[do |-> "none", id |-> NoId], [do |-> "call", id |-> lastRequestId]}
    \cup {[do |-> "cancel", id |-> j] : j \in Range(bufferedRequests)}

\* mutation: the flush walks the buffer from its end
ToFlushBackwards(op) ==
    LET kept == SelectSeq(bufferedRequests,
                          LAMBDA j : calls[j].flush /\ ~(op.do = "cancel" /\ op.id = j))
    IN [i \in 1 .. Len(kept) |-> kept[Len(kept) + 1 - i]]

\* mutation: the flush does not look at what a listener canceled meanwhile
ToFlushStale(op) == SelectSeq(bufferedRequests, LAMBDA j : calls[j].flush)

\* the buffered requests whose flush is still set when forEach reaches them
\* mutation: the buffer is dropped without being flushed
ToFlushNothing(op) == <<>>
ToFlush(op) ==
    SelectSeq(bufferedRequests, LAMBDA j : calls[j].flush /\ ~(op.do = "cancel" /\ op.id = j))

\* what the step to Idle sends: _onDidInitialize.fire() runs the listeners,
\* which send fired, then the buffer is walked, which sends flushed
\* mutation: the buffer is flushed before the event fires
InitializeSendsFlushFirst(fired, flushed) == flushed \o fired
InitializeSends(fired, flushed) == fired \o flushed

\* state === Uninitialized && type === ResponseInitialize
Initialize(op, listenerFirst) ==
    LET listenMsgs == MapSeq(initListeners, RawListen)
        opMsgs == IF op.do = "call"
                  THEN <<Msg(RequestPromise, op.id, "ch", NoData)>> ELSE <<>>
        flushMsgs == MapSeq(ToFlush(op), RawRequest)
    IN
    /\ state' = Idle
    /\ ClientSend(InitializeSends(IF listenerFirst THEN opMsgs \o listenMsgs
                                  ELSE listenMsgs \o opMsgs,
                                  flushMsgs))
    /\ streams' = [i \in DOMAIN streams |->
                     IF i \in Range(initListeners)
                     THEN [streams[i] EXCEPT !.uninitializedPromise = "null"]
                     ELSE streams[i]]
    /\ initListeners' = <<>>
    /\ calls' = [j \in DOMAIN calls |->
                   IF op.do = "cancel" /\ op.id = j
                   THEN [calls[j] EXCEPT !.st = "canceled", !.flush = FALSE,
                                         !.cancelled = "buffered"]
                   ELSE IF j \in Range(ToFlush(op))
                   THEN [calls[j] EXCEPT !.flush = FALSE, !.flushed = TRUE]
                   ELSE calls[j]]
                @@ (IF op.do = "call" THEN op.id :> NewCall("direct", "ch") ELSE <<>>)
    /\ handlers' = handlers \cup Range(ToFlush(op))
                   \cup (IF op.do = "call" THEN {op.id} ELSE {})
    /\ activeRequests' = IF op.do = "cancel" THEN Without(activeRequests, op.id)
                         ELSE IF op.do = "call" THEN Append(activeRequests, op.id)
                         ELSE activeRequests
    /\ lastRequestId' = IF op.do = "call" THEN lastRequestId + 1 ELSE lastRequestId
    /\ bufferedRequests' = <<>>

\* the second test of onMessage: this response initializes the client
\* mutation: the state is not tested
IsInitializationInAnyState(response) == response.type = ResponseInitialize

IsInitialization(response) ==
    state = Uninitialized /\ response.type = ResponseInitialize

\* the transport delivers the ResponseInitialize that initializes the client
ClientInitialize(op, listenerFirst) ==
    /\ s2c # <<>>
    /\ clientListening
    /\ isResponse(Head(s2c).type)
    /\ IsInitialization(Head(s2c))
    /\ op \in ListenerOps
    /\ s2c' = Tail(s2c)
    /\ Initialize(op, listenerFirst)
    /\ UNCHANGED <<clientListening, nSrvSent, serverVars, envVars>>

\* the transport delivers any other message of the peer to the client
ClientOnMessage ==
    /\ s2c # <<>>
    /\ clientListening
    /\ LET response == Head(s2c) IN
       /\ ~(isResponse(response.type) /\ IsInitialization(response))
       /\ IF ~isResponse(response.type)
          THEN UNCHANGED <<calls, handlers, activeRequests, streams>>
          ELSE Dispatch(response)
    /\ s2c' = Tail(s2c)
    /\ UNCHANGED <<state, lastRequestId, bufferedRequests, clientListening,
                   initListeners, clientOut, nSrvSent, serverVars, envVars>>

\* a message arrives after the client's protocolListener was disposed
ClientMissesMessage ==
    /\ s2c # <<>>
    /\ ~clientListening
    /\ s2c' = Tail(s2c)
    /\ UNCHANGED <<clientVars, envVars, clientOut, nSrvSent, serverVars>>

ClientDispose ==
    /\ clientListening
    /\ clientListening' = FALSE
    /\ ClientSend(MapSeq(SelectSeq(activeRequests, CancelSends), RawCancel))
    /\ calls' = [j \in DOMAIN calls |->
                   IF j \in Range(activeRequests) THEN CancelledCall(j) ELSE calls[j]]
    /\ bufferedRequests' = SelectSeq(bufferedRequests,
                              LAMBDA j : BufferAfterCancel(j) = bufferedRequests)
    /\ activeRequests' = <<>>
    /\ UNCHANGED <<state, lastRequestId, handlers, streams, initListeners,
                   serverOut, serverVars, envVars>>

\* ============================================================ ChannelServer
\* the plain data sent for an Error: { message, name, stack }
SerializeError(err) ==
    [k |-> "ErrorData", v |-> 0, message |-> err.message, name |-> err.name,
     stack |-> IF err.stack.form = "undefined" THEN NoStack
               ELSE IF err.stack.form = "string" THEN SplitStack(err.stack)
               ELSE err.stack]

SuccessResponse(id, data) == Msg(ResponsePromiseSuccess, id, "", data)

\* mutation: every failure is answered as an Error
ErrorResponseAsError(id, data) == Msg(ResponsePromiseError, id, "", SerializeError(data))

\* the error callback of onPromise
ErrorResponse(id, data) ==
    IF data.k = "Error"
    THEN Msg(ResponsePromiseError, id, "", SerializeError(data))
    ELSE Msg(ResponsePromiseErrorObj, id, "", data)

\* the value the promise of channel.call settles with
SettledValue(id, outcome) ==
    IF outcome = "success" THEN Val(id)
    ELSE IF outcome = "error" THEN BoomError
    ELSE IF outcome = "errobj" THEN ObjValue(42)
    ELSE CanceledError

\* the response sent when the promise of channel.call settles
SettledResponse(id, outcome) ==
    IF outcome = "success" THEN SuccessResponse(id, SettledValue(id, outcome))
    ELSE ErrorResponse(id, SettledValue(id, outcome))

FireResponse(id, data) == Msg(ResponseEventFire, id, "", data)

\* mutation: the registration is not deleted
RemoveNothing(f, id) == f

Remove(f, id) == [j \in DOMAIN f \ {id} |-> f[j]]
SortedIds(S) == SelectSeq([i \in 1 .. Cardinality(Ids) |-> i - 1], LAMBDA j : j \in S)

RECURSIVE SortedNames(_)
SortedNames(S) ==
    IF S = {} THEN <<>>
    ELSE LET n == CHOOSE x \in S : TRUE IN <<n>> \o SortedNames(S \ {n})

\* new ChannelServer(protocol), and the channels its owner registers on it
\* before the next message is delivered
Construct(chs) ==
    /\ serverState' = "alive"
    /\ serversCreated' = serversCreated + 1
    /\ channels' = [n \in chs |-> "a"]
    /\ registered' = MapSeq(SortedNames(chs), LAMBDA n : <<n, "a">>)
    /\ srvActiveRequests' = <<>>
    /\ ServerSend(<<Msg(ResponseInitialize, NoId, "", NoData)>>)
    /\ UNCHANGED <<clientVars, envVars, clientOut, ops, eventListeners,
                   eventsProduced, disposerCalls, srvUncaught>>

ServerConstruct(chs) ==
    /\ serverState = "none"
    /\ Construct(chs)

\* a further ChannelServer is constructed on the transport after the
\* previous one was disposed
ServerReconstruct(chs) ==
    /\ serverState = "disposed"
    /\ Construct(chs)

\* this.channels[channelName] = channel
RegisteredFirstWins(chs, channelName, channel) ==
    [n \in DOMAIN chs \cup {channelName} |-> IF n \in DOMAIN chs THEN chs[n] ELSE channel]
Registered(chs, channelName, channel) ==
    [n \in DOMAIN chs \cup {channelName} |-> IF n = channelName THEN channel ELSE chs[n]]

registerChannel(channelName, channel) ==
    /\ serverState = "alive"
    /\ channels' = Registered(channels, channelName, channel)
    /\ registered' = Append(registered, <<channelName, channel>>)
    /\ UNCHANGED <<clientVars, envVars, clientOut, serverOut, serverState, serversCreated,
                   srvActiveRequests, ops, eventListeners, eventsProduced, disposerCalls, srvUncaught>>

\* the promise of channel.call (or of wrapError), with what it settled with
NewOp(channel, st, result) ==
    [channel |-> channel, st |-> st, progress |-> 0, result |-> result]
SettledOp(id, outcome) ==
    [ops[id] EXCEPT !.st = "settled", !.result = SettledValue(id, outcome)]

onPromise(request, outcome) ==
    LET id == request.id IN
    /\ srvActiveRequests' = (id :> "promise") @@ srvActiveRequests
    /\ IF request.channelName \notin DOMAIN channels
       THEN /\ ServerSend(<<ErrorResponse(id, TypeErrorValue)>>)
            /\ ops' = (id :> NewOp("none", "settled", TypeErrorValue)) @@ ops
       ELSE LET channel == channels[request.channelName] IN
            IF outcome = "pending"
            THEN /\ ops' = (id :> NewOp(channel, "running", NoData)) @@ ops
                 /\ UNCHANGED serverOut
            ELSE /\ ops' = (id :> NewOp(channel, "settled", SettledValue(id, outcome))) @@ ops
                 /\ ServerSend(<<SettledResponse(id, outcome)>>)
    /\ UNCHANGED <<eventListeners, disposerCalls, srvUncaught>>

onEventListen(request) ==
    IF request.channelName \notin DOMAIN channels
    THEN /\ srvUncaught' = srvUncaught + 1
         /\ UNCHANGED <<srvActiveRequests, ops, eventListeners, disposerCalls, serverOut>>
    ELSE /\ eventListeners' = Append(eventListeners, request.id)
         /\ srvActiveRequests' = (request.id :> "event") @@ srvActiveRequests
         /\ UNCHANGED <<ops, disposerCalls, srvUncaught, serverOut>>

\* mutation: canceling an already settled promise answers again
DisposeAlwaysSends(id) == srvActiveRequests[id] = "promise"

\* disposable.dispose() of the disposer registered under id sends a response:
\* requestPromise.cancel() cancels the promise of channel.call, whose error
\* (or completion) callback then runs
DisposeSends(id) == srvActiveRequests[id] = "promise" /\ ops[id].st = "running"

ListenersAfterDispose(ls, id) ==
    IF srvActiveRequests[id] = "event" THEN RemoveAt(ls, LastIndexOf(ls, id)) ELSE ls

\* mutation: an id without a disposer is answered with an error
disposeActiveRequestStrict(request, co) ==
    LET id == request.id IN
    IF id \in DOMAIN srvActiveRequests
    THEN /\ ServerSend(IF srvActiveRequests[id] = "promise" /\ ops[id].st = "running"
                       THEN <<SettledResponse(id, co)>> ELSE <<>>)
         /\ ops' = IF srvActiveRequests[id] = "promise" /\ ops[id].st = "running"
                   THEN [ops EXCEPT ![id] = SettledOp(id, co)] ELSE ops
         /\ eventListeners' = ListenersAfterDispose(eventListeners, id)
         /\ disposerCalls' = [disposerCalls EXCEPT ![id] = @ + 1]
         /\ UNCHANGED srvUncaught
         /\ srvActiveRequests' = [j \in DOMAIN srvActiveRequests \ {id} |-> srvActiveRequests[j]]
    ELSE /\ ServerSend(<<ErrorResponse(id, TypeErrorValue)>>)
         /\ UNCHANGED <<srvActiveRequests, ops, eventListeners, disposerCalls, srvUncaught>>

disposeActiveRequest(request, co) ==
    LET id == request.id IN
    IF id \in DOMAIN srvActiveRequests
    THEN /\ ServerSend(IF DisposeSends(id) THEN <<SettledResponse(id, co)>> ELSE <<>>)
         /\ ops' = IF DisposeSends(id) THEN [ops EXCEPT ![id] = SettledOp(id, co)] ELSE ops
         /\ eventListeners' = ListenersAfterDispose(eventListeners, id)
         /\ disposerCalls' = [disposerCalls EXCEPT ![id] = @ + 1]
         /\ UNCHANGED srvUncaught
         /\ srvActiveRequests' = Remove(srvActiveRequests, id)
    ELSE UNCHANGED <<srvActiveRequests, ops, eventListeners, disposerCalls, srvUncaught, serverOut>>

ServerTakes(types) ==
    /\ c2s # <<>>
    /\ serverState = "alive"
    /\ Head(c2s).type \in types
    /\ c2s' = Tail(c2s)
    /\ UNCHANGED <<clientVars, envVars, nSent, serverState, serversCreated, channels, registered,
                   eventsProduced>>

\* onMessage, case RequestPromise; outcome says how the promise that
\* channel.call returns has settled by the time it is returned, if it has
ServerOnPromise(outcome) ==
    /\ ServerTakes({RequestPromise})
    /\ onPromise(Head(c2s), outcome)

\* onMessage, case RequestEventListen
ServerOnEventListen ==
    /\ ServerTakes({RequestEventListen})
    /\ onEventListen(Head(c2s))

\* onMessage, cases RequestPromiseCancel and RequestEventDispose
ServerOnDispose(co) ==
    /\ ServerTakes({RequestPromiseCancel, RequestEventDispose})
    /\ disposeActiveRequest(Head(c2s), co)

\* a message arrives while no ChannelServer listens on the transport
ServerMissesMessage ==
    /\ c2s # <<>>
    /\ serverState = "disposed"
    /\ c2s' = Tail(c2s)
    /\ UNCHANGED <<clientVars, envVars, nSent, serverOut, serverVars>>

\* the promise returned by channel.call reports progress
OpProgress(id) ==
    /\ id \in DOMAIN ops
    /\ ops[id].st = "running"
    /\ ops' = [ops EXCEPT ![id].progress = @ + 1]
    /\ ServerSend(<<Msg(ResponsePromiseProgress, id, "", Val(ops[id].progress + 1))>>)
    /\ UNCHANGED <<clientVars, envVars, clientOut, serverState, serversCreated, channels, registered,
                   srvActiveRequests, eventListeners, eventsProduced, disposerCalls, srvUncaught>>

\* the promise returned by channel.call settles
OpSettle(id, outcome) ==
    /\ id \in DOMAIN ops
    /\ ops[id].st = "running"
    /\ ops' = [ops EXCEPT ![id] = SettledOp(id, outcome)]
    /\ ServerSend(<<SettledResponse(id, outcome)>>)
    /\ srvActiveRequests' = Remove(srvActiveRequests, id)
    /\ UNCHANGED <<clientVars, envVars, clientOut, serverState, serversCreated, channels, registered,
                   eventListeners, eventsProduced, disposerCalls, srvUncaught>>

\* the event returned by channel.listen produces a value
EventProduce ==
    /\ eventsProduced' = eventsProduced + 1
    /\ ServerSend(MapSeq(eventListeners, LAMBDA id : FireResponse(id, Val(eventsProduced + 1))))
    /\ UNCHANGED <<clientVars, envVars, clientOut, serverState, serversCreated, channels, registered,
                   srvActiveRequests, ops, eventListeners, disposerCalls, srvUncaught>>

RECURSIVE ListenersAfterDisposeAll(_, _)
ListenersAfterDisposeAll(ls, ids) ==
    IF ids = <<>> THEN ls
    ELSE ListenersAfterDisposeAll(ListenersAfterDispose(ls, Head(ids)), Tail(ids))

ServerDispose(co) ==
    /\ serverState = "alive"
    /\ serverState' = "disposed"
    /\ LET ids == SortedIds(DOMAIN srvActiveRequests) IN
       /\ ServerSend(MapSeq(SelectSeq(ids, DisposeSends), LAMBDA id : SettledResponse(id, co)))
       /\ ops' = [j \in DOMAIN ops |->
                    IF j \in DOMAIN srvActiveRequests /\ DisposeSends(j)
                    THEN SettledOp(j, co) ELSE ops[j]]
       /\ eventListeners' = ListenersAfterDisposeAll(eventListeners, ids)
       /\ disposerCalls' = [j \in Ids |->
                              IF j \in DOMAIN srvActiveRequests THEN disposerCalls[j] + 1
                              ELSE disposerCalls[j]]
    /\ srvActiveRequests' = <<>>
    /\ UNCHANGED <<clientVars, envVars, clientOut, serversCreated, channels, registered,
                   eventsProduced, srvUncaught>>

\* a message of a kind the server's switch has no case for
ServerIgnoresMessage ==
    /\ c2s # <<>>
    /\ serverState = "alive"
    /\ Head(c2s).type \notin RequestTypes
    /\ c2s' = Tail(c2s)
    /\ UNCHANGED <<clientVars, envVars, nSent, serverOut, serverVars>>

\* ============================================================ IPCClient
\* the ids the requests of the peer's ChannelClient carry
PeerIds == {0, 1}

\* the peer is an IPCClient too: its ChannelClient sends a request on the same
\* transport, which the protocol delivers to every onMessage listener
PeerRequest(type, id) ==
    /\ s2c' = Append(s2c, Msg(type, id, "ch", NoData))
    /\ peerRequests' = peerRequests + 1
    /\ UNCHANGED <<clientVars, clientOut, nSrvSent, serverVars, sendThrows, searchVars, ipcChannels,
                   channelClients, routed, connections, adapterVars>>

\* protocol.onMessage fires with a response of the peer that does not follow
\* from what the peer's ChannelServer was asked: a terminal response or a
\* progress for an id, whatever was sent for that id before
PeerResponds(type, id) ==
    /\ s2c' = Append(s2c, Msg(type, id, "",
                              IF type = ResponsePromiseError THEN SerializeError(BoomError)
                              ELSE Val(7)))
    /\ peerRequests' = peerRequests + 1
    /\ UNCHANGED <<clientVars, clientOut, nSrvSent, serverVars, sendThrows, searchVars, ipcChannels,
                   channelClients, routed, connections, adapterVars>>

\* the id an IPCClient announces: the message is the id itself, a string
\* with no type field
Announcement(c) == [type |-> NoId, id |-> c, channelName |-> "", data |-> NoData]

\* new IPCClient(protocol, id) on the peer's side: the id is sent, then its
\* ChannelServer announces itself; chs are the channels registered on it
\* before the next message is delivered
\* mutation: the id is sent after the ChannelServer was created
IPCClientConstructLate(c, chs) ==
    /\ serverState = "none"
    /\ serverState' = "alive"
    /\ serversCreated' = serversCreated + 1
    /\ channels' = [n \in chs |-> "a"]
    /\ registered' = MapSeq(SortedNames(chs), LAMBDA n : <<n, "a">>)
    /\ srvActiveRequests' = <<>>
    /\ s2c' = s2c \o <<Msg(ResponseInitialize, NoId, "", NoData), Announcement(c)>>
    /\ nSrvSent' = Tally(nSrvSent, <<Msg(ResponseInitialize, NoId, "", NoData)>>)
    /\ UNCHANGED <<clientVars, envVars, clientOut, ops, eventListeners,
                   eventsProduced, disposerCalls, srvUncaught>>
IPCClientConstruct(c, chs) ==
    /\ serverState = "none"
    /\ serverState' = "alive"
    /\ serversCreated' = serversCreated + 1
    /\ channels' = [n \in chs |-> "a"]
    /\ registered' = MapSeq(SortedNames(chs), LAMBDA n : <<n, "a">>)
    /\ srvActiveRequests' = <<>>
    /\ s2c' = s2c \o <<Announcement(c), Msg(ResponseInitialize, NoId, "", NoData)>>
    /\ nSrvSent' = Tally(nSrvSent, <<Msg(ResponseInitialize, NoId, "", NoData)>>)
    /\ UNCHANGED <<clientVars, envVars, clientOut, ops, eventListeners,
                   eventsProduced, disposerCalls, srvUncaught>>

\* ============================================================ IPCServer
ConnectionIds == {"c1"}

\* if (!id)
RoutesAlways(target) == TRUE
Routes(target) == target # NoConnection

\* the ids the connection's ChannelClient gives to requests forwarded to it
ForwardedIds(kinds) == [k \in 1 .. Len(kinds) |-> lastRequestId + k - 1]
IdsOfKind(kinds, kind) ==
    SelectSeq(ForwardedIds(kinds), LAMBDA id : kinds[id - lastRequestId + 1] = kind)

\* the messages the ChannelClient sends when kinds are forwarded to it
ForwardSends(kinds, channelName) ==
    IF state = Uninitialized THEN <<>>
    ELSE MapSeq(IdsOfKind(kinds, "call"),
                LAMBDA id : Msg(RequestPromise, id, channelName, NoData))

\* client.getChannel(channelName).call / .listen for each of kinds, in order
ForwardClient(kinds, channelName) ==
    LET callIds == IdsOfKind(kinds, "call")
        listenIds == IdsOfKind(kinds, "listen")
        mode == IF state = Uninitialized THEN "buffered" ELSE "direct"
    IN
    /\ lastRequestId' = lastRequestId + Len(kinds)
    /\ calls' = [id \in DOMAIN calls \cup Range(callIds) |->
                   IF id \in DOMAIN calls THEN calls[id] ELSE NewCall(mode, channelName)]
    /\ streams' = [id \in DOMAIN streams \cup Range(listenIds) |->
                     IF id \in DOMAIN streams THEN streams[id] ELSE NewStream(channelName)]
    /\ activeRequests' = activeRequests \o callIds
    /\ bufferedRequests' = IF state = Uninitialized THEN bufferedRequests \o callIds
                           ELSE bufferedRequests
    /\ handlers' = handlers \cup Range(listenIds)
                            \cup (IF state = Uninitialized THEN {} ELSE Range(callIds))
    /\ UNCHANGED <<state, clientListening, initListeners>>

NewRouted(kind, target, st, id) == [kind |-> kind, target |-> target, st |-> st, id |-> id]

\* getChannel(channelName, router).call or .listen, the router returning target
RoutedRequest(kind, target, channelName) ==
    /\ IF ~Routes(target)
       THEN /\ routed' = Append(routed, NewRouted(kind, target, "rejected", NoId))
            /\ UNCHANGED <<clientVars, clientOut>>
       ELSE IF target \in DOMAIN channelClients
       THEN /\ routed' = Append(routed, NewRouted(kind, target, "forwarded", lastRequestId))
            /\ ForwardClient(<<kind>>, channelName)
            /\ ClientSend(ForwardSends(<<kind>>, channelName))
       ELSE /\ routed' = Append(routed, NewRouted(kind, target, "waiting", NoId))
            /\ UNCHANGED <<clientVars, clientOut>>
    /\ UNCHANGED <<sendThrows, searchVars, ipcChannels, peerRequests, adapterVars, connections, channelClients, serverOut, serverVars>>

\* the indices of the routed requests that wait for connection c, in order
\* mutation: a client added under any id releases every waiting request
WaitingForAny(c) ==
    SelectSeq([k \in 1 .. Len(routed) |-> k], LAMBDA k : routed[k].st = "waiting")
WaitingFor(c) ==
    SelectSeq([k \in 1 .. Len(routed) |-> k],
              LAMBDA k : routed[k].st = "waiting" /\ routed[k].target = c)

\* onFirstMessage: the first message of a connection is its id; the
\* connection's ChannelServer and ChannelClient are created, the client is
\* registered and onClientAdded fires, which releases the requests that
\* wait for this id
ClientAdded(channelName) ==
    /\ s2c # <<>>
    /\ DOMAIN channelClients = {}
    /\ LET c == Head(s2c).id
           waiting == WaitingFor(c)
           kinds == MapSeq(waiting, LAMBDA k : routed[k].kind)
       IN
       /\ channelClients' = (c :> "k1") @@ channelClients
       /\ routed' = [k \in 1 .. Len(routed) |->
                       IF k \in Range(waiting)
                       THEN NewRouted(routed[k].kind, c, "forwarded",
                                      ForwardedIds(kinds)[CHOOSE j \in 1 .. Len(waiting) :
                                                              waiting[j] = k])
                       ELSE routed[k]]
       /\ ForwardClient(kinds, channelName)
       /\ c2s' = (c2s \o <<Msg(ResponseInitialize, NoId, "", NoData)>>)
                    \o ForwardSends(kinds, channelName)
       /\ nSent' = Tally(nSent, ForwardSends(kinds, channelName))
    /\ s2c' = Tail(s2c)
    /\ UNCHANGED <<sendThrows, searchVars, ipcChannels, peerRequests, adapterVars, connections, nSrvSent, serverVars>>

\* ------------------------------------------------------------ several connections
\* The IPCServer with several connections. Of each connection's pair only
\* its existence and the routed requests handed to its ChannelClient are kept.

\* onDidClientConnect fires for connection k: onFirstMessage is subscribed
onDidClientConnect(k) ==
    /\ connections[k].phase = "none"
    /\ connections' = [connections EXCEPT ![k].phase = "connected"]
    /\ UNCHANGED <<clientVars, clientOut, serverOut, serverVars, sendThrows, searchVars, ipcChannels, peerRequests, adapterVars,
                   channelClients, routed>>

\* the peer of connection k is an IPCClient made with id c: protocol.send(id)
PeerAnnounces(k, c) ==
    /\ ~connections[k].peer
    /\ connections[k].phase \in {"none", "connected"}
    /\ connections' = [connections EXCEPT ![k].peer = TRUE, ![k].inbox = <<Announcement(c)>>]
    /\ UNCHANGED <<clientVars, clientOut, serverOut, serverVars, sendThrows, searchVars, ipcChannels, peerRequests, adapterVars,
                   channelClients, routed>>

\* onFirstMessage of connection k: the pair is created, the ChannelClient is
\* stored under the announced id, and onClientAdded fires, which hands the
\* requests waiting for that id to the new ChannelClient
onFirstMessage(k) ==
    /\ connections[k].phase = "connected"
    /\ connections[k].inbox # <<>>
    /\ LET id == Head(connections[k].inbox).id
           waiting == WaitingFor(id)
       IN
       /\ connections' = [connections EXCEPT ![k].phase = "registered",
                                             ![k].inbox = Tail(@),
                                             ![k].id = id,
                                             ![k].pair = "alive",
                                             ![k].channels = ipcChannels,
                                             ![k].released = Len(waiting),
                                             ![k].forwarded = waiting]
       /\ channelClients' = (id :> k) @@ channelClients
       /\ routed' = [i \in DOMAIN routed |->
                       IF i \in Range(waiting) THEN [routed[i] EXCEPT !.st = "forwarded"]
                       ELSE routed[i]]
    /\ UNCHANGED <<clientVars, clientOut, serverOut, serverVars, sendThrows, searchVars, ipcChannels,
                   peerRequests, adapterVars>>

\* onDidClientDisconnect of connection k; the handler is subscribed by
\* onFirstMessage, so a connection that did not announce itself is just gone
onDidClientDisconnect(k) ==
    /\ connections[k].phase \in {"connected", "registered"}
    /\ IF connections[k].phase = "registered"
       THEN /\ connections' = [connections EXCEPT ![k].phase = "disconnected",
                                                  ![k].inbox = <<>>,
                                                  ![k].pair = "disposed"]
            /\ channelClients' = [c \in DOMAIN channelClients \ {connections[k].id} |->
                                    channelClients[c]]
       ELSE /\ connections' = [connections EXCEPT ![k].phase = "disconnected",
                                                  ![k].inbox = <<>>]
            /\ UNCHANGED channelClients
    /\ UNCHANGED <<clientVars, clientOut, serverOut, serverVars, sendThrows, searchVars, ipcChannels, peerRequests, adapterVars,
                   routed>>

\* IPCServer.registerChannel
IPCServerRegisterChannel(channelName, channel) ==
    /\ ipcChannels' = Registered(ipcChannels, channelName, channel)
    /\ UNCHANGED <<clientVars, clientOut, serverOut, serverVars, sendThrows, searchVars, peerRequests,
                   adapterVars, channelClients, routed, connections>>

\* the channels of the ChannelServer of connection k: those registered on it
\* when it was created
\* mutation: the ChannelServer looks the channel up on the IPCServer
ServerChannelsShared(k) == ipcChannels
ServerChannels(k) == connections[k].channels

\* the peer of connection k calls channelName: onPromise of the connection's
\* ChannelServer answers from the channel, or with the TypeError of the call
\* on a channel it does not have
ConnectionRequest(k, channelName) ==
    /\ connections[k].phase = "registered"
    /\ connections' = [connections EXCEPT ![k].answers =
          Append(@, [channelName |-> channelName,
                     answer |-> IF channelName \in DOMAIN ServerChannels(k)
                                THEN SuccessResponse(Len(@), Val(Len(@)))
                                ELSE ErrorResponse(Len(@), TypeErrorValue)])]
    /\ UNCHANGED <<clientVars, clientOut, serverOut, serverVars, sendThrows, searchVars, ipcChannels,
                   peerRequests, adapterVars, channelClients, routed>>

\* getChannel(channelName, router).call, the router returning target
RoutedCall(target) ==
    /\ IF target \in DOMAIN channelClients
       THEN /\ routed' = Append(routed, NewRouted("call", target, "forwarded", NoId))
            /\ connections' = [connections EXCEPT
                                 ![channelClients[target]].forwarded = Append(@, Len(routed) + 1)]
       ELSE /\ routed' = Append(routed, NewRouted("call", target, "waiting", NoId))
            /\ UNCHANGED connections
    /\ UNCHANGED <<clientVars, clientOut, serverOut, serverVars, sendThrows, searchVars, ipcChannels, peerRequests, adapterVars,
                   channelClients>>

\* ============================================================ getDelayedChannel
\* promise.then(c => c.call(command, arg)): the call reaches the target when
\* the promise of the target has resolved, at once if it already has
DelayedCall ==
    /\ delayedChannel' = [delayedChannel EXCEPT
          !.calls = Append(@, IF delayedChannel.resolved THEN "direct" ELSE "deferred")]
    /\ UNCHANGED <<clientVars, clientOut, serverOut, serverVars, sendThrows, searchVars, ipcChannels, peerRequests,
                   channelClients, routed, connections, nextTickChannel>>

\* a Relay passes on what its input fires once an input is set
\* mutation: the returned event fires before an input is set
RelayDeliversUnattached(listen) == TRUE
RelayDelivers(listen) == listen.attached

\* listen: a Relay is made and its event returned (a listener subscribes to
\* it); relay.input is set to c.listen(event, arg) when the promise resolves
DelayedListen ==
    /\ delayedChannel' = [delayedChannel EXCEPT
          !.listens = Append(@, [attached |-> delayedChannel.resolved,
                                 createdAt |-> delayedChannel.produced,
                                 attachedAt |-> delayedChannel.produced,
                                 got |-> <<>>])]
    /\ UNCHANGED <<clientVars, clientOut, serverOut, serverVars, sendThrows, searchVars, ipcChannels, peerRequests,
                   channelClients, routed, connections, nextTickChannel>>

\* the promise of the target channel resolves: the callbacks registered by
\* call and listen run
DelayedResolve ==
    /\ ~delayedChannel.resolved
    /\ delayedChannel' = [delayedChannel EXCEPT
          !.resolved = TRUE,
          !.calls = [i \in DOMAIN @ |-> "delegated"],
          !.listens = [i \in DOMAIN @ |->
                         [@[i] EXCEPT !.attached = TRUE,
                                      !.attachedAt = delayedChannel.produced]]]
    /\ UNCHANGED <<clientVars, clientOut, serverOut, serverVars, sendThrows, searchVars, ipcChannels, peerRequests,
                   channelClients, routed, connections, nextTickChannel>>

\* the target channel's event fires its next value
TargetProduces ==
    /\ delayedChannel' = [delayedChannel EXCEPT
          !.produced = @ + 1,
          !.listens = [i \in DOMAIN @ |->
                         IF RelayDelivers(@[i])
                         THEN [@[i] EXCEPT !.got = Append(@, delayedChannel.produced + 1)]
                         ELSE @[i]]]
    /\ UNCHANGED <<clientVars, clientOut, serverOut, serverVars, sendThrows, searchVars, ipcChannels, peerRequests,
                   channelClients, routed, connections, nextTickChannel>>

\* ============================================================ getNextTickChannel
\* if (didTick)
\* mutation: the flag is not tested
PassesThroughAlways == TRUE
PassesThrough == nextTickChannel.didTick

\* call or listen on the next-tick channel: straight to the wrapped channel
\* once didTick is set, behind a TPromise.timeout(0) of its own before
NextTickUse(kind) ==
    /\ nextTickChannel' =
          IF PassesThrough
          THEN [nextTickChannel EXCEPT !.reached = Append(@, [kind |-> kind, sync |-> TRUE])]
          ELSE [nextTickChannel EXCEPT !.timers = Append(@, kind)]
    /\ UNCHANGED <<clientVars, clientOut, serverOut, serverVars, sendThrows, searchVars, ipcChannels, peerRequests,
                   channelClients, routed, connections, delayedChannel>>

\* the oldest pending timeout fires: didTick is set, then the wrapped channel
\* is used
TimerFires ==
    /\ nextTickChannel.timers # <<>>
    /\ nextTickChannel' = [nextTickChannel EXCEPT
          !.didTick = TRUE,
          !.timers = Tail(@),
          !.reached = Append(@, [kind |-> Head(nextTickChannel.timers), sync |-> FALSE])]
    /\ UNCHANGED <<clientVars, clientOut, serverOut, serverVars, sendThrows, searchVars, ipcChannels, peerRequests,
                   channelClients, routed, connections, delayedChannel>>

\* ============================================================ SearchService
\* the bases a raw match of the engine may have; "" stands for none
Bases == {"", "r"}

\* join(match.base, match.relativePath), or the relative path alone
rawMatchToSearchItem(match) ==
    [path |-> IF match.base # "" THEN <<match.base, match.relativePath>>
              ELSE <<match.relativePath>>]

\* what the progress callback is given: an array of items, or one item
Reported(array, items) == [array |-> array, items |-> items]

\* fileProgressCallback, for an array of raw matches and for one raw match
FileProgressBatch(batch) == Reported(TRUE, MapSeq(batch, rawMatchToSearchItem))
FileProgressMatch(match) == Reported(FALSE, <<rawMatchToSearchItem(match)>>)

\* doFileSearch(EngineClass, config, progressCallback, batchSize) with
\* config.sortByScore unset; batchSize 0 stands for no batchSize
doFileSearch(batchSize) ==
    /\ fileSearch.phase = "none"
    /\ fileSearch' = [fileSearch EXCEPT !.phase = "running", !.batchSize = batchSize]
    /\ UNCHANGED <<clientVars, clientOut, serverOut, serverVars, sendThrows, ipcChannels,
                   peerRequests, adapterVars, channelClients, routed, connections,
                   collector, caches, searches>>

\* batchSize > 0 && batch.length >= batchSize
\* mutation: the batch is reported once it exceeds batchSize
BatchIsOverfull(batch, batchSize) == batchSize > 0 /\ Len(batch) > batchSize
BatchIsFull(batch, batchSize) == batchSize > 0 /\ Len(batch) >= batchSize

\* the engine's onResult callback in doSearch; the match is the next file
\* the engine finds
onResult(base) ==
    /\ fileSearch.phase = "running"
    /\ LET match == [base |-> base, relativePath |-> Len(fileSearch.emitted) + 1]
           batch == Append(fileSearch.batch, match)
       IN
       fileSearch' =
          IF fileSearch.batchSize # 0
          THEN IF BatchIsFull(batch, fileSearch.batchSize)
               THEN [fileSearch EXCEPT !.emitted = Append(@, match),
                                       !.batch = <<>>,
                                       !.reported = Append(@, FileProgressBatch(batch))]
               ELSE [fileSearch EXCEPT !.emitted = Append(@, match), !.batch = batch]
          ELSE [fileSearch EXCEPT !.emitted = Append(@, match),
                                  !.reported = Append(@, FileProgressMatch(match))]
    /\ UNCHANGED <<clientVars, clientOut, serverOut, serverVars, sendThrows, ipcChannels,
                   peerRequests, adapterVars, channelClients, routed, connections,
                   collector, caches, searches>>

\* the engine's done callback in doSearch: what is left in the batch is
\* reported, then the promise settles
onDone ==
    /\ fileSearch.phase = "running"
    /\ fileSearch' =
          [fileSearch EXCEPT
              !.phase = "done",
              !.batch = <<>>,
              !.reported = IF Len(fileSearch.batch) # 0
                           THEN Append(@, FileProgressBatch(fileSearch.batch)) ELSE @]
    /\ UNCHANGED <<clientVars, clientOut, serverOut, serverVars, sendThrows, ipcChannels,
                   peerRequests, adapterVars, channelClients, routed, connections,
                   collector, caches, searches>>

\* ------------------------------------------------------------ BatchedCollector
START_BATCH_AFTER_COUNT == 50
\* the maxBatchSize a collector may be made with, and the sizes its items
\* may be added with
CollectorBatchSizes == {2, 30}
Sizes == {0, 1, 25}

\* new BatchedCollector(maxBatchSize, cb)
NewCollector(maxBatchSize) ==
    /\ collector.maxBatchSize = 0
    /\ collector' = [collector EXCEPT !.maxBatchSize = maxBatchSize]
    /\ UNCHANGED <<clientVars, clientOut, serverOut, serverVars, sendThrows, ipcChannels,
                   peerRequests, adapterVars, channelClients, routed, connections,
                   fileSearch, caches, searches>>

\* flush(), on the collector c
Flushed(c) ==
    IF c.batchSize # 0
    THEN [c EXCEPT !.totalNumberCompleted = @ + c.batchSize,
                   !.given = Append(@, Reported(TRUE, c.batch)),
                   !.batch = <<>>,
                   !.batchSize = 0,
                   !.timers = IF c.timeoutHandle # 0 /\ @ > 0 THEN @ - 1 ELSE @,
                   !.timeoutHandle = 0]
    ELSE c

\* onUpdate(), on the collector c
Updated(c) ==
    IF c.totalNumberCompleted < START_BATCH_AFTER_COUNT THEN Flushed(c)
    ELSE IF c.batchSize >= c.maxBatchSize THEN Flushed(c)
    ELSE IF c.timeoutHandle = 0 THEN [c EXCEPT !.timeoutHandle = 1, !.timers = @ + 1]
    ELSE c

\* addItem(item, size) for count = 1 and addItems(items, size) for an array
\* of count items; the items are the next ones of the caller
addItems(count, size) ==
    /\ collector.maxBatchSize > 0
    /\ collector' =
          Updated([collector EXCEPT
                      !.batch = @ \o [i \in 1 .. count |-> collector.added + i],
                      !.batchSize = @ + size,
                      !.added = @ + count,
                      !.adds = @ + 1,
                      !.lastOp = "add"])
    /\ UNCHANGED <<clientVars, clientOut, serverOut, serverVars, sendThrows, ipcChannels,
                   peerRequests, adapterVars, channelClients, routed, connections,
                   fileSearch, caches, searches>>

\* the owner of the collector calls flush()
CollectorFlush ==
    /\ collector.maxBatchSize > 0
    /\ collector' = Flushed([collector EXCEPT !.lastOp = "flush"])
    /\ UNCHANGED <<clientVars, clientOut, serverOut, serverVars, sendThrows, ipcChannels,
                   peerRequests, adapterVars, channelClients, routed, connections,
                   fileSearch, caches, searches>>

\* the timeout started by onUpdate fires
CollectorTimeout ==
    /\ collector.timers > 0
    /\ collector' = Flushed([collector EXCEPT !.timers = @ - 1, !.lastOp = "timeout"])
    /\ UNCHANGED <<clientVars, clientOut, serverOut, serverVars, sendThrows, ipcChannels,
                   peerRequests, adapterVars, channelClients, routed, connections,
                   fileSearch, caches, searches>>

\* ------------------------------------------------------------ the search cache
CacheKeys == {"x"}
\* file patterns, as the sequences of their characters; sep is "/"
FilePatterns == {<<"a">>, <<"a", "b">>, <<"a", "/">>, <<"a", "/", "b">>}
HasSep(searchValue) == "/" \in Range(searchValue)
StartsWith(haystack, needle) ==
    Len(needle) <= Len(haystack) /\ SubSeq(haystack, 1, Len(needle)) = needle

\* getResultsFromCache: the row of previousSearch serves searchValue
\* mutation: any row whose pattern is a prefix serves
ReusablePrefix(searchValue, previousSearch) == StartsWith(searchValue, previousSearch)
Reusable(searchValue, previousSearch) ==
    /\ StartsWith(searchValue, previousSearch)
    /\ ~(HasSep(searchValue) /\ ~HasSep(previousSearch))

\* the first row of the cache, in the order of its keys, that serves
\* searchValue; 0 when there is none or no cache under cacheKey
CachedRow(cacheKey, searchValue) ==
    IF cacheKey \notin DOMAIN caches THEN 0
    ELSE LET rows == caches[cacheKey].rows
             serving == {r \in 1 .. Len(rows) : Reusable(searchValue, rows[r].filePattern)}
         IN IF serving = {} THEN 0 ELSE CHOOSE r \in serving : \A q \in serving : r <= q

\* cache.resultsToSearchCache[filePattern] = row: a key that exists keeps
\* its place
PutRow(rows, row) ==
    IF \E r \in 1 .. Len(rows) : rows[r].filePattern = row.filePattern
    THEN [r \in 1 .. Len(rows) |->
            IF rows[r].filePattern = row.filePattern THEN row ELSE rows[r]]
    ELSE Append(rows, row)

\* doFileSearch with sortByScore and a cacheKey: answered from a row of the
\* cache when one serves, and else by a new engine whose promise is stored
\* under the pattern, in the cache under cacheKey, created if there is none.
\* origin is the search whose engine produces the results, gen the search
\* that created the cache.
SortedSearch(cacheKey, filePattern) ==
    LET i == Len(searches) + 1
        r == CachedRow(cacheKey, filePattern)
        gen == IF cacheKey \in DOMAIN caches THEN caches[cacheKey].gen ELSE i
        rows == IF cacheKey \in DOMAIN caches THEN caches[cacheKey].rows ELSE <<>>
    IN
    /\ IF r # 0
       THEN /\ searches' = Append(searches, [cacheKey |-> cacheKey, filePattern |-> filePattern,
                                             origin |-> rows[r].origin, gen |-> gen,
                                             st |-> "joined"])
            /\ UNCHANGED caches
       ELSE /\ searches' = Append(searches, [cacheKey |-> cacheKey, filePattern |-> filePattern,
                                             origin |-> i, gen |-> gen, st |-> "running"])
            /\ caches' = [k \in DOMAIN caches \cup {cacheKey} |->
                            IF k = cacheKey
                            THEN [gen |-> gen,
                                  rows |-> PutRow(rows, [filePattern |-> filePattern,
                                                         origin |-> i])]
                            ELSE caches[k]]
    /\ UNCHANGED <<clientVars, clientOut, serverOut, serverVars, sendThrows, ipcChannels,
                   peerRequests, adapterVars, channelClients, routed, connections,
                   fileSearch, collector>>

\* the engine of search i is done: allResultsPromise completes, or fails and
\* its row is deleted from the cache it was stored in
SortedSearchDone(i, ok) ==
    /\ i \in 1 .. Len(searches)
    /\ searches[i].st = "running"
    /\ searches' = [searches EXCEPT ![i].st = IF ok THEN "done" ELSE "failed"]
    /\ caches' = [k \in DOMAIN caches |->
                    IF ~ok /\ k = searches[i].cacheKey /\ caches[k].gen = searches[i].gen
                    THEN [caches[k] EXCEPT !.rows =
                             SelectSeq(@, LAMBDA row : row.filePattern # searches[i].filePattern)]
                    ELSE caches[k]]
    /\ UNCHANGED <<clientVars, clientOut, serverOut, serverVars, sendThrows, ipcChannels,
                   peerRequests, adapterVars, channelClients, routed, connections,
                   fileSearch, collector>>

\* delete this.caches[cacheKey]
clearCache(cacheKey) ==
    /\ caches' = [k \in DOMAIN caches \ {cacheKey} |-> caches[k]]
    /\ UNCHANGED <<clientVars, clientOut, serverOut, serverVars, sendThrows, ipcChannels,
                   peerRequests, adapterVars, channelClients, routed, connections,
                   fileSearch, collector, searches>>

\* ============================================================ specification
\* ------------------------------------------------------------ bounds as guards
CallsBelow(n) == Cardinality(DOMAIN calls) < n
StreamsBelow(n) == Cardinality(DOMAIN streams) < n
NoCallOp(op) == op.do # "call"

RECURSIVE Subscriptions(_)
Subscriptions(ids) ==
    IF ids = {} THEN 0
    ELSE LET i == CHOOSE j \in ids : TRUE IN streams[i].subscribes + Subscriptions(ids \ {i})
SubscribesBelow(n) == Subscriptions(DOMAIN streams) < n
Quiet == [do |-> "none", id |-> NoId]

\* Calls with the whole life of the remote operation: progress, settlement of
\* every kind, cancellation and disposal on both sides.
NextCalls ==
    \/ \E ch \in ChannelNames : CallsBelow(MaxRemoteCalls) /\ requestPromise(ch)
    \/ \E id \in Ids : CancelCall(id)
    \/ \E op \in ListenerOps, lf \in {TRUE} :
          (CallsBelow(MaxRemoteCalls) \/ NoCallOp(op)) /\ ClientInitialize(op, lf)
    \/ ClientOnMessage
    \/ ClientMissesMessage
    \/ ClientDispose
    \/ \E chs \in {ChannelNames} : ServerConstruct(chs)
    \/ \E o \in Outcomes \cup {"pending"} : ServerOnPromise(o)
    \/ \E co \in CancelOutcomes : ServerOnDispose(co)
    \/ ServerMissesMessage
    \/ \E id \in DOMAIN ops : ops[id].progress < MaxProgress /\ OpProgress(id)
    \/ \E id \in Ids, outcome \in Outcomes : OpSettle(id, outcome)
    \/ \E co \in CancelOutcomes : ServerDispose(co)

SpecCalls == Init /\ [][NextCalls]_vars

\* Calls around the handshake: buffering, flushing and cancellation on the
\* client, with a peer that answers each request at once.
NextBuffer ==
    \/ \E ch \in ChannelNames : CallsBelow(MaxCalls) /\ requestPromise(ch)
    \/ \E id \in Ids : CancelCall(id)
    \/ \E op \in ListenerOps, lf \in {TRUE} :
          (CallsBelow(MaxCalls) \/ NoCallOp(op)) /\ ClientInitialize(op, lf)
    \/ ClientOnMessage
    \/ ClientMissesMessage
    \/ ClientDispose
    \/ \E chs \in {ChannelNames} : ServerConstruct(chs)
    \/ \E o \in {"success"} : ServerOnPromise(o)
    \/ \E co \in {"canceled"} : ServerOnDispose(co)

SpecBuffer == Init /\ [][NextBuffer]_vars

\* One remote operation after the other reporting progress before it settles.
NextProgress ==
    \/ \E ch \in ChannelNames : CallsBelow(MaxRemoteCalls) /\ requestPromise(ch)
    \/ \E id \in Ids : CancelCall(id)
    \/ \E op \in {Quiet}, lf \in {TRUE} : ClientInitialize(op, lf)
    \/ ClientOnMessage
    \/ \E chs \in {ChannelNames} : ServerConstruct(chs)
    \/ \E o \in {"pending"} : ServerOnPromise(o)
    \/ \E co \in {"canceled"} : ServerOnDispose(co)
    \/ \E id \in DOMAIN ops : ops[id].progress < MaxOrderedProgress /\ OpProgress(id)
    \/ \E id \in Ids, outcome \in {"success", "error"} : OpSettle(id, outcome)

SpecProgress == Init /\ [][NextProgress]_vars

\* Event streams: subscription, forwarding and teardown.
NextEvents ==
    \/ \E ch \in ChannelNames : StreamsBelow(MaxStreams) /\ requestEvent(ch)
    \/ \E id \in Ids, s \in Subscribers : SubscribesBelow(MaxSubscribes) /\ Subscribe(id, s)
    \/ \E id \in Ids, s \in Subscribers : Unsubscribe(id, s)
    \/ \E op \in {Quiet}, lf \in {TRUE} : ClientInitialize(op, lf)
    \/ ClientOnMessage
    \/ \E chs \in {ChannelNames} : ServerConstruct(chs)
    \/ ServerOnEventListen
    \/ \E co \in {"canceled"} : ServerOnDispose(co)
    \/ eventsProduced < MaxEvents /\ EventProduce

SpecEvents == Init /\ [][NextEvents]_vars

\* The client before and across its initialization: every client operation
\* on calls and event streams, and the ChannelServer that announces itself.
NextHandshake ==
    \/ \E ch \in ChannelNames : CallsBelow(MaxHandshakeCalls) /\ requestPromise(ch)
    \/ \E id \in Ids : CancelCall(id)
    \/ \E ch \in ChannelNames : StreamsBelow(MaxStreams) /\ requestEvent(ch)
    \/ \E id \in Ids, s \in {"s1"} : SubscribesBelow(MaxSubscribes) /\ Subscribe(id, s)
    \/ \E id \in Ids, s \in {"s1"} : Unsubscribe(id, s)
    \/ \E op \in ListenerOps, lf \in BOOLEAN :
          (CallsBelow(MaxHandshakeCalls) \/ NoCallOp(op)) /\ ClientInitialize(op, lf)
    \/ ClientDispose
    \/ ClientMissesMessage
    \/ \E chs \in {ChannelNames} : ServerConstruct(chs)

SpecHandshake == Init /\ [][NextHandshake]_vars

\* The client's state machine when ChannelServers are constructed, disposed
\* and constructed again on the transport, each announcing itself.
NextReinit ==
    \/ \E ch \in ChannelNames : CallsBelow(MaxHandshakeCalls) /\ requestPromise(ch)
    \/ \E id \in Ids : CancelCall(id)
    \/ \E ch \in ChannelNames : StreamsBelow(MaxStreams) /\ requestEvent(ch)
    \/ \E id \in Ids, s \in {"s1"} : SubscribesBelow(MaxSubscribes) /\ Subscribe(id, s)
    \/ \E op \in ListenerOps, lf \in {TRUE} :
          (CallsBelow(MaxHandshakeCalls) \/ NoCallOp(op)) /\ ClientInitialize(op, lf)
    \/ ClientOnMessage
    \/ \E chs \in {ChannelNames} : ServerConstruct(chs)
    \/ \E chs \in {ChannelNames} : serversCreated < MaxServers /\ ServerReconstruct(chs)
    \/ \E co \in {"canceled"} : ServerDispose(co)

SpecReinit == Init /\ [][NextReinit]_vars

\* Channels registered, and registered again, while calls naming them
\* arrive; the server starts without any channel.
NextRegister ==
    \/ \E ch \in ChannelNames : CallsBelow(MaxCalls) /\ requestPromise(ch)
    \/ \E op \in {Quiet}, lf \in {TRUE} : ClientInitialize(op, lf)
    \/ ClientOnMessage
    \/ \E chs \in {{}} : ServerConstruct(chs)
    \/ \E ch \in ChannelNames, channel \in Implementations :
          Len(registered) < MaxRegistrations /\ registerChannel(ch, channel)
    \/ \E o \in {"success", "error"} : ServerOnPromise(o)

SpecRegister == Init /\ [][NextRegister]_vars

\* Cancels and disposes that reach a server which has no disposer for their
\* id: the operation has completed, or the listen named an unregistered channel.
NextStale ==
    \/ \E ch \in ChannelNames : CallsBelow(MaxRemoteCalls) /\ requestPromise(ch)
    \/ \E id \in Ids : CancelCall(id)
    \/ \E ch \in UnregisteredNames : StreamsBelow(MaxStreams) /\ requestEvent(ch)
    \/ \E id \in Ids, s \in {"s1"} : SubscribesBelow(MaxStaleSubscribes) /\ Subscribe(id, s)
    \/ \E id \in Ids, s \in {"s1"} : Unsubscribe(id, s)
    \/ \E op \in {Quiet}, lf \in {TRUE} : ClientInitialize(op, lf)
    \/ ClientOnMessage
    \/ \E chs \in {ChannelNames} : ServerConstruct(chs)
    \/ \E o \in {"success", "pending"} : ServerOnPromise(o)
    \/ ServerOnEventListen
    \/ \E co \in {"canceled"} : ServerOnDispose(co)
    \/ \E id \in Ids, o \in {"success"} : OpSettle(id, o)

SpecStale == Init /\ [][NextStale]_vars

\* Calls and listens on a routed channel of an IPCServer with one connection,
\* whose peer is an IPCClient.
NextRouting ==
    \/ \E kind \in {"call", "listen"}, target \in ConnectionIds \cup {NoConnection},
          ch \in ChannelNames :
          Len(routed) < MaxRouted /\ RoutedRequest(kind, target, ch)
    \/ \E c \in ConnectionIds, chs \in {ChannelNames} : IPCClientConstruct(c, chs)
    \/ \E ch \in ChannelNames : ClientAdded(ch)
    \/ \E op \in {Quiet}, lf \in {TRUE} : DOMAIN channelClients # {} /\ ClientInitialize(op, lf)
    \/ DOMAIN channelClients # {} /\ ClientOnMessage
    \/ \E type \in {RequestPromise, RequestEventListen}, id \in {0} :
          /\ serverState = "alive" /\ peerRequests < MaxPeerRequests
          /\ PeerRequest(type, id)
    \/ \E o \in {"success"} : ServerOnPromise(o)
    \/ ServerIgnoresMessage

SpecRouting == Init /\ [][NextRouting]_vars

\* Calls and listens over a transport whose send may throw.
NextTransport ==
    \/ \E ch \in ChannelNames : CallsBelow(MaxRemoteCalls) /\ requestPromise(ch)
    \/ \E id \in Ids : CancelCall(id)
    \/ \E ch \in ChannelNames : StreamsBelow(MaxStreams) /\ requestEvent(ch)
    \/ \E id \in Ids, s \in {"s1"} : SubscribesBelow(MaxStaleSubscribes) /\ Subscribe(id, s)
    \/ \E op \in {Quiet}, lf \in {TRUE} : ClientInitialize(op, lf)
    \/ ClientOnMessage
    \/ \E chs \in {ChannelNames} : ServerConstruct(chs)
    \/ \E o \in {"success", "error"} : ServerOnPromise(o)
    \/ \E throws \in BOOLEAN : SetSendThrows(throws)

SpecTransport == Init /\ [][NextTransport]_vars

\* A ChannelClient whose transport also carries the requests of the peer's
\* ChannelClient.
NextShared ==
    \/ \E ch \in ChannelNames : CallsBelow(MaxRemoteCalls) /\ requestPromise(ch)
    \/ \E ch \in ChannelNames : StreamsBelow(MaxStreams) /\ requestEvent(ch)
    \/ \E id \in Ids, s \in {"s1"} : SubscribesBelow(MaxStaleSubscribes) /\ Subscribe(id, s)
    \/ \E op \in {Quiet}, lf \in {TRUE} : ClientInitialize(op, lf)
    \/ ClientOnMessage
    \/ \E chs \in {ChannelNames} : ServerConstruct(chs)
    \/ \E o \in {"pending"} : ServerOnPromise(o)
    \/ ServerOnEventListen
    \/ eventsProduced < MaxEvents /\ EventProduce
    \/ \E type \in RequestTypes, id \in PeerIds :
          peerRequests < MaxPeerRequests /\ PeerRequest(type, id)

SpecShared == Init /\ [][NextShared]_vars

\* Calls and listens on a delayed channel and on a next-tick channel.
NextAdapters ==
    \/ Len(delayedChannel.calls) < MaxAdapterUses /\ DelayedCall
    \/ Len(delayedChannel.listens) < MaxAdapterUses /\ DelayedListen
    \/ DelayedResolve
    \/ delayedChannel.produced < MaxEvents /\ TargetProduces
    \/ \E kind \in {"call", "listen"} :
          /\ Len(nextTickChannel.timers) + Len(nextTickChannel.reached) < MaxAdapterUses
          /\ NextTickUse(kind)
    \/ TimerFires

SpecAdapters == Init /\ [][NextAdapters]_vars

\* An IPCServer with two connections, whose peers announce ids that may be
\* equal, and calls on a routed channel.
NextConnections ==
    \/ \E k \in Connections : onDidClientConnect(k)
    \/ \E k \in Connections, c \in AnnouncedIds : PeerAnnounces(k, c)
    \/ \E k \in Connections : onFirstMessage(k)
    \/ \E k \in Connections : onDidClientDisconnect(k)
    \/ \E target \in AnnouncedIds : Len(routed) < MaxRouted /\ RoutedCall(target)

SpecConnections == Init /\ [][NextConnections]_vars

\* Calls over a reliable transport that delivers every message in the end,
\* to a peer whose ChannelServer is constructed and whose operations settle;
\* neither side is disposed.
NextLive ==
    \/ \E ch \in ChannelNames \cup UnregisteredNames :
          CallsBelow(MaxRemoteCalls) /\ requestPromise(ch)
    \/ \E id \in Ids : CancelCall(id)
    \/ \E op \in {Quiet}, lf \in {TRUE} : ClientInitialize(op, lf)
    \/ ClientOnMessage
    \/ \E chs \in {ChannelNames} : ServerConstruct(chs)
    \/ \E o \in Outcomes \cup {"pending"} : ServerOnPromise(o)
    \/ \E co \in CancelOutcomes : ServerOnDispose(co)
    \/ \E id \in Ids, outcome \in Outcomes : OpSettle(id, outcome)

\* the transport delivers, the peer's server is constructed, and every remote
\* operation settles
FairLive ==
    /\ WF_vars(ClientInitialize(Quiet, TRUE))
    /\ WF_vars(ClientOnMessage)
    /\ WF_vars(ServerConstruct(ChannelNames))
    /\ WF_vars(\E o \in Outcomes \cup {"pending"} : ServerOnPromise(o))
    /\ WF_vars(\E co \in CancelOutcomes : ServerOnDispose(co))
    /\ WF_vars(\E id \in Ids, outcome \in Outcomes : OpSettle(id, outcome))

SpecLive == Init /\ [][NextLive]_vars /\ FairLive

\* Calls that are canceled while their answer is on its way, and answers that
\* arrive more than once.
NextRace ==
    \/ \E ch \in ChannelNames : CallsBelow(MaxRemoteCalls) /\ requestPromise(ch)
    \/ \E id \in Ids : CancelCall(id)
    \/ \E op \in {Quiet}, lf \in {TRUE} : ClientInitialize(op, lf)
    \/ ClientOnMessage
    \/ \E chs \in {ChannelNames} : ServerConstruct(chs)
    \/ \E o \in {"pending"} : ServerOnPromise(o)
    \/ \E co \in {"canceled"} : ServerOnDispose(co)
    \/ \E id \in Ids, outcome \in {"success"} : OpSettle(id, outcome)
    \/ \E type \in {ResponsePromiseSuccess, ResponsePromiseError, ResponsePromiseProgress},
          id \in DOMAIN calls :
          peerRequests < MaxPeerRequests /\ PeerResponds(type, id)

SpecRace == Init /\ [][NextRace]_vars

\* Channels registered on an IPCServer before and after its connections
\* announce themselves, and the calls their peers make.
NextSnapshot ==
    \/ \E k \in Connections : onDidClientConnect(k)
    \/ \E k \in Connections, c \in AnnouncedIds : PeerAnnounces(k, c)
    \/ \E k \in Connections : onFirstMessage(k)
    \/ \E ch \in ChannelNames \cup UnregisteredNames, channel \in {"a"} :
          IPCServerRegisterChannel(ch, channel)
    \/ \E k \in Connections, ch \in ChannelNames \cup UnregisteredNames :
          Len(connections[k].answers) < MaxPeerRequests /\ ConnectionRequest(k, ch)

SpecSnapshot == Init /\ [][NextSnapshot]_vars

\* One file search without sortByScore, with and without a batchSize.
NextFileSearch ==
    \/ \E batchSize \in 0 .. MaxBatchSize : doFileSearch(batchSize)
    \/ \E base \in Bases : Len(fileSearch.emitted) < MaxResults /\ onResult(base)
    \/ onDone

SpecFileSearch == Init /\ [][NextFileSearch]_vars

\* One BatchedCollector with a positive maxBatchSize.
NextCollector ==
    \/ \E maxBatchSize \in CollectorBatchSizes : NewCollector(maxBatchSize)
    \/ \E count \in {1, 2}, size \in Sizes : collector.adds < MaxAdds /\ addItems(count, size)
    \/ CollectorFlush
    \/ CollectorTimeout

SpecCollector == Init /\ [][NextCollector]_vars

\* Sorted file searches with a cacheKey, and the cache cleared in between.
NextCache ==
    \/ \E cacheKey \in CacheKeys, filePattern \in FilePatterns :
          Len(searches) < MaxSearches /\ SortedSearch(cacheKey, filePattern)
    \/ \E i \in 1 .. MaxSearches, ok \in BOOLEAN : SortedSearchDone(i, ok)
    \/ \E cacheKey \in CacheKeys : cacheKey \in DOMAIN caches /\ clearCache(cacheKey)

SpecCache == Init /\ [][NextCache]_vars

\* ============================================================ properties

\* the messages the client hands to protocol.send in a step of the client
NewlySent == SubSeq(c2s', Len(c2s) + 1, Len(c2s'))
\* the messages the server hands to protocol.send in a step of the server
NewlyAnswered == SubSeq(s2c', Len(s2c) + 1, Len(s2c'))

RequestIdsOf(msgs, ids) ==
    MapSeq(SelectSeq(msgs, LAMBDA m : m.type = RequestPromise /\ m.id \in ids),
           LAMBDA m : m.id)
NotCancelledIn(buffer, cs) == SelectSeq(buffer, LAMBDA j : cs[j].cancelled # "buffered")
Terminals(id) ==
    nSrvSent[<<ResponsePromiseSuccess, id>>] + nSrvSent[<<ResponsePromiseError, id>>]
    + nSrvSent[<<ResponsePromiseErrorObj, id>>]
FirstValues(n) == [i \in 1 .. n |-> Val(i)]

\* C1: once the client is Idle, every call that was buffered and not canceled
\* while buffered has had its RequestPromise sent exactly once, and the step
\* that makes the client Idle sends the requests of the buffered calls in the
\* order in which the calls were made.
C1_AllFlushedOnce ==
    state = Idle =>
        \A id \in DOMAIN calls :
            (calls[id].mode = "buffered" /\ calls[id].cancelled # "buffered")
                => nSent[<<RequestPromise, id>>] = 1
C1_FlushStep ==
    (state = Uninitialized /\ state' = Idle) =>
        RequestIdsOf(NewlySent, Range(bufferedRequests))
            = NotCancelledIn(bufferedRequests, calls')
C1_BufferedCallsFlushInOrder == [](C1_AllFlushedOnce) /\ [][C1_FlushStep]_vars
C1_Witness ==
    /\ state = Idle
    /\ \E i, j \in DOMAIN calls :
          /\ i < j
          /\ calls[i].mode = "buffered" /\ calls[j].mode = "buffered"
          /\ nSent[<<RequestPromise, i>>] = 1 /\ nSent[<<RequestPromise, j>>] = 1

\* C2: a call canceled while it was still buffered never reaches the
\* transport: neither its RequestPromise nor a RequestPromiseCancel is sent.
C2_CanceledBufferedNeverSent ==
    \A id \in DOMAIN calls :
        calls[id].cancelled = "buffered" =>
            /\ nSent[<<RequestPromise, id>>] = 0
            /\ nSent[<<RequestPromiseCancel, id>>] = 0
            /\ \A i \in 1 .. Len(c2s) : c2s[i].id # id
C2_Witness ==
    /\ state = Idle
    /\ \E i, j \in DOMAIN calls :
          /\ calls[i].cancelled = "buffered"
          /\ calls[j].mode = "buffered" /\ nSent[<<RequestPromise, j>>] = 1

\* C3: a call canceled after its RequestPromise was sent and before it
\* settled has exactly one RequestPromiseCancel sent for its id, and the
\* server invokes the disposer registered under that id at most once.
C3_OneCancelOneDispose ==
    \A id \in DOMAIN calls :
        /\ calls[id].cancelled = "sent" =>
              nSent[<<RequestPromise, id>>] = 1 /\ nSent[<<RequestPromiseCancel, id>>] = 1
        /\ disposerCalls[id] <= 1
C3_Witness ==
    \E id \in DOMAIN calls :
        /\ calls[id].cancelled = "sent"
        /\ calls[id].mode = "buffered"
        /\ disposerCalls[id] = 1
        /\ c2s = <<>>

\* C4: the server sends at most one terminal response (success, error or
\* error object) for a request id, also when the request is canceled by the
\* peer or the server is disposed.
C4_AtMostOneTerminal == \A id \in Ids : Terminals(id) <= 1
C4_Witness ==
    \E id \in DOMAIN ops :
        /\ Terminals(id) = 1
        /\ disposerCalls[id] = 1
        /\ nSrvSent[<<ResponsePromiseError, id>>] = 1
        /\ serverState = "disposed"

\* C5: the caller receives the progress values of its call in the order in
\* which the remote operation produced them and before the call settles: the
\* server sends no progress for an id after that id's terminal response, and
\* a settled call receives no further progress.
C5_ProgressInOrder ==
    \A id \in DOMAIN calls : calls[id].progress = FirstValues(Len(calls[id].progress))
C5_ProgressStep ==
    \A id \in DOMAIN calls :
        /\ nSrvSent'[<<ResponsePromiseProgress, id>>] # nSrvSent[<<ResponsePromiseProgress, id>>]
              => Terminals(id) = 0
        /\ calls[id].st # "pending" => calls'[id].progress = calls[id].progress
C5_ProgressBeforeSettlement == [](C5_ProgressInOrder) /\ [][C5_ProgressStep]_vars
C5_Witness ==
    \E id \in DOMAIN calls :
        /\ calls[id].st = "resolved"
        /\ calls[id].progress = <<Val(1), Val(2)>>

\* C6: while a RequestEventListen with id i is active on the server, every
\* value the channel's event produces causes exactly one ResponseEventFire
\* with id i, so the fires sent for an id never outnumber the values
\* produced, and no subscriber is handed more values than were produced.
C6_OneFirePerValue ==
    /\ \A i \in Ids : nSrvSent[<<ResponseEventFire, i>>] <= eventsProduced
    /\ \A i \in DOMAIN streams : \A s \in Subscribers :
          Len(streams[i].got[s]) <= eventsProduced

\* C7: for a stream whose RequestEventListen has been sent, the removal of
\* the last subscriber sends exactly one RequestEventDispose with the
\* stream's request id.
C7_LastRemoval ==
    \A i \in DOMAIN streams :
        (streams[i].subs # {} /\ streams'[i].subs = {}
         /\ nSent[<<RequestEventListen, i>>] > 0)
            => nSent'[<<RequestEventDispose, i>>] = nSent[<<RequestEventDispose, i>>] + 1
C7_DisposeOnLastRemoval == [][C7_LastRemoval]_vars

\* C8 as stated: a stream subscribed again after its last subscriber left
\* sends its RequestEventListen under a different id than before, so no id
\* carries two RequestEventListen messages.
C8_FreshIdPerSubscription == \A i \in Ids : nSent[<<RequestEventListen, i>>] <= 1

\* C8 as amended: the id of a stream is allocated once, when listen() is
\* called; every RequestEventListen sent for the stream, for its first
\* subscription and for each later re-subscription, carries that same id, and
\* subscribing allocates no id.
C8_ListenStep ==
    /\ \A k \in 1 .. Len(NewlySent) :
          NewlySent[k].type = RequestEventListen =>
              /\ NewlySent[k].id \in DOMAIN streams
              /\ streams'[NewlySent[k].id].subs # {}
    /\ \A i \in DOMAIN streams :
          (streams[i].subs = {} /\ streams'[i].subs # {}) =>
              /\ lastRequestId' = lastRequestId
              /\ state = Idle => NewlySent = <<RawListen(i)>>
C8_ResubscriptionReusesId == [][C8_ListenStep]_vars
C8_Witness ==
    \E i \in DOMAIN streams :
        /\ nSent[<<RequestEventListen, i>>] = 2
        /\ streams[i].subs # {}
        /\ streams[i].subscribes >= 2

\* C9: the client starts Uninitialized; its state changes only from
\* Uninitialized to Idle and only in the step that receives a
\* ResponseInitialize, so it changes at most once; a ResponseInitialize
\* received while Idle changes nothing on the client and sends nothing.
C9_StateStep ==
    /\ state' # state =>
          /\ state = Uninitialized /\ state' = Idle
          /\ s2c # <<>> /\ Head(s2c).type = ResponseInitialize /\ s2c' = Tail(s2c)
    /\ (/\ state = Idle /\ clientListening
        /\ s2c # <<>> /\ Head(s2c).type = ResponseInitialize /\ s2c' = Tail(s2c))
          => UNCHANGED <<clientVars, c2s, nSent>>
C9_InitializedOnce ==
    /\ state = Uninitialized
    /\ [](state \in {Uninitialized, Idle})
    /\ [][C9_StateStep]_vars
C9_Witness ==
    /\ state = Idle
    /\ clientListening
    /\ nSrvSent[<<ResponseInitialize, NoId>>] = 2
    /\ s2c = <<>>
    /\ bufferedRequests = <<>>
    /\ \E id \in DOMAIN calls : calls[id].mode = "buffered" /\ calls[id].flushed

\* C10: a ChannelServer sends ResponseInitialize, and nothing else, when it
\* is constructed and nothing before; the client sends no message of any
\* kind while it is Uninitialized, whatever is called, listened to,
\* subscribed, unsubscribed or canceled meanwhile.
C10_SilentUntilInitialized ==
    /\ state = Uninitialized => (c2s = <<>> /\ \A k \in DOMAIN nSent : nSent[k] = 0)
    /\ serverState = "none" => (s2c = <<>> /\ \A k \in DOMAIN nSrvSent : nSrvSent[k] = 0)
    /\ nSrvSent[<<ResponseInitialize, NoId>>] = serversCreated
C10_ConstructStep ==
    serversCreated' # serversCreated =>
        NewlyAnswered = <<Msg(ResponseInitialize, NoId, "", NoData)>>
C10_InitializeFirst == [](C10_SilentUntilInitialized) /\ [][C10_ConstructStep]_vars
C10_Witness ==
    /\ state = Uninitialized
    /\ serversCreated = 1
    /\ \E id \in DOMAIN calls : calls[id].cancelled = "buffered"
    /\ \E i \in DOMAIN streams : streams[i].subs = {} /\ streams[i].subscribes >= 1

\* the remote operations whose promise settles in a step of the server
NewlySettled == {id \in DOMAIN ops' :
                    /\ ops'[id].st = "settled"
                    /\ id \in DOMAIN ops => ops[id].st = "running"}
Answered(response) == \E k \in 1 .. Len(NewlyAnswered) : NewlyAnswered[k] = response

\* C11: when the remote operation fails with an Error, thrown during the
\* invocation or produced as a later rejection, the server answers with one
\* ResponsePromiseError that carries the error's message, its name and the
\* lines of its stack, and the caller's promise is rejected with an Error of
\* the same message and name.
C11_ServerStep ==
    \A id \in NewlySettled :
        ops'[id].result.k = "Error" =>
            Answered([type |-> ResponsePromiseError, id |-> id, channelName |-> "",
                      data |-> [k |-> "ErrorData", v |-> 0,
                                message |-> ops'[id].result.message,
                                name |-> ops'[id].result.name,
                                stack |-> [form |-> "array",
                                           lines |-> ops'[id].result.stack.lines]]])
C11_CallerSeesError ==
    \A id \in DOMAIN calls \cap DOMAIN ops :
        (calls[id].st = "rejected" /\ ops[id].result.k = "Error") =>
            /\ calls[id].result.k = "Error"
            /\ calls[id].result.message = ops[id].result.message
            /\ calls[id].result.name = ops[id].result.name
C11_ErrorRoundTrip == [](C11_CallerSeesError) /\ [][C11_ServerStep]_vars
C11_Witness ==
    \E id \in DOMAIN calls \cap DOMAIN ops :
        /\ calls[id].st = "rejected"
        /\ ops[id].progress = 1
        /\ ops[id].result.k = "Error"
        /\ calls[id].result.message = "boom"
        /\ calls[id].result.stack.form = "array"

\* C12: when the remote operation fails with a value that is not an Error,
\* the server answers with one ResponsePromiseErrorObj that carries the value
\* unchanged and the caller's promise is rejected with an equal value; an
\* Error is never answered with ResponsePromiseErrorObj and another value
\* never with ResponsePromiseError.
C12_ServerStep ==
    /\ \A id \in NewlySettled :
          ops'[id].result.k = "obj" =>
              Answered([type |-> ResponsePromiseErrorObj, id |-> id, channelName |-> "",
                        data |-> ops'[id].result])
    /\ \A k \in 1 .. Len(NewlyAnswered) :
          /\ NewlyAnswered[k].type = ResponsePromiseErrorObj =>
                ops'[NewlyAnswered[k].id].result.k = "obj"
          /\ NewlyAnswered[k].type = ResponsePromiseError =>
                ops'[NewlyAnswered[k].id].result.k = "Error"
C12_CallerSeesValue ==
    \A id \in DOMAIN calls \cap DOMAIN ops :
        (calls[id].st = "rejected" /\ ops[id].result.k = "obj") =>
            calls[id].result = ops[id].result
C12_ErrorObjRoundTrip == [](C12_CallerSeesValue) /\ [][C12_ServerStep]_vars
C12_Witness ==
    \E id \in DOMAIN calls \cap DOMAIN ops :
        /\ calls[id].st = "rejected"
        /\ calls[id].result.k = "obj"
        /\ calls[id].result.v = 42
        /\ nSrvSent[<<ResponsePromiseErrorObj, id>>] = 1

\* C13: a RequestPromiseCancel or RequestEventDispose that the server
\* receives for an id without a registered disposer is a silent no-op: no
\* disposer is invoked, nothing is sent, and the pending-request map and the
\* rest of the server's state stay as they are.
C13_StaleStep ==
    (/\ serverState = "alive"
     /\ c2s # <<>>
     /\ c2s' = Tail(c2s)
     /\ Head(c2s).type \in {RequestPromiseCancel, RequestEventDispose}
     /\ Head(c2s).id \notin DOMAIN srvActiveRequests)
        => UNCHANGED <<s2c, nSrvSent, serverVars>>
C13_StaleCancelIsNoOp == [][C13_StaleStep]_vars
C13_Witness ==
    /\ serverState = "alive"
    /\ c2s = <<>>
    /\ \E i \in DOMAIN streams :
          nSent[<<RequestEventDispose, i>>] = 1 /\ disposerCalls[i] = 0
    /\ \E j \in DOMAIN calls :
          /\ nSent[<<RequestPromiseCancel, j>>] = 1 /\ disposerCalls[j] = 0
          /\ nSrvSent[<<ResponsePromiseSuccess, j>>] = 1

\* C14: a call or a listen on a routed channel whose router picks no client
\* is rejected at once, and the step that makes it sends no message on the
\* connection's transport and allocates no request id; it is never forwarded
\* later either.
C14_UnroutedStep ==
    (Len(routed') > Len(routed) /\ routed'[Len(routed')].target = NoConnection)
        => /\ routed'[Len(routed')].st = "rejected"
           /\ routed'[Len(routed')].id = NoId
           /\ UNCHANGED <<clientVars, c2s, s2c, nSent, nSrvSent>>
C14_UnroutedStaysRejected ==
    \A k \in DOMAIN routed :
        routed[k].target = NoConnection => routed[k].st = "rejected" /\ routed[k].id = NoId
C14_NoIdRejects == [](C14_UnroutedStaysRejected) /\ [][C14_UnroutedStep]_vars
C14_Witness ==
    /\ Len(routed) = 2
    /\ routed[1].target = NoConnection /\ routed[1].st = "rejected"
    /\ routed[2].st = "forwarded" /\ routed[2].id = 0
    /\ DOMAIN channelClients # {}
    /\ lastRequestId = 1

\* C15: the ids one ChannelClient allocates to its calls and listens are
\* pairwise distinct and strictly increasing in invocation order: calls and
\* listens draw from one counter, every invocation takes the counter's value,
\* which is above every id allocated before, and raises it by one; a request
\* message carries the id of the invocation of its own kind.
C15_AllocatedIds == DOMAIN calls \cup DOMAIN streams
C15_IdsDistinct ==
    /\ DOMAIN calls \cap DOMAIN streams = {}
    /\ C15_AllocatedIds = 0 .. (lastRequestId - 1)
    /\ \A id \in Ids :
          /\ nSent[<<RequestPromise, id>>] > 0 => id \in DOMAIN calls
          /\ nSent[<<RequestPromise, id>>] <= 1
          /\ nSent[<<RequestEventListen, id>>] > 0 => id \in DOMAIN streams
C15_AllocationStep ==
    /\ lastRequestId' >= lastRequestId
    /\ (DOMAIN calls' \cup DOMAIN streams') # C15_AllocatedIds
          => /\ (DOMAIN calls' \cup DOMAIN streams') = C15_AllocatedIds \cup {lastRequestId}
             /\ \A id \in C15_AllocatedIds : id < lastRequestId
             /\ lastRequestId' = lastRequestId + 1
C15_IdsIncrease == [](C15_IdsDistinct) /\ [][C15_AllocationStep]_vars
C15_Witness ==
    /\ 0 \in DOMAIN streams /\ 1 \in DOMAIN calls /\ lastRequestId = 2
    /\ nSent[<<RequestPromise, 1>>] = 1
    /\ nSent[<<RequestEventListen, 0>>] > 0

\* C16: ChannelClient.dispose() cancels every call it still tracks: a call
\* whose request was sent gets exactly one RequestPromiseCancel, a call still
\* buffered leaves the buffer and its RequestPromise is never sent, and once
\* the client is disposed a message arriving from the transport changes
\* nothing of the client and settles no call.
C16_DisposeStep ==
    (clientListening /\ ~clientListening')
        => /\ activeRequests' = <<>>
           /\ \A id \in Range(activeRequests) :
                 calls[id].st = "pending"
                    => /\ calls'[id].st = "canceled"
                       /\ nSent'[<<RequestPromiseCancel, id>>]
                             = nSent[<<RequestPromiseCancel, id>>]
                               + (IF CallIsSent(id) THEN 1 ELSE 0)
                       /\ nSent'[<<RequestPromise, id>>] = nSent[<<RequestPromise, id>>]
                       /\ id \notin Range(bufferedRequests')
C16_InboundStep ==
    (~clientListening /\ s2c # <<>> /\ s2c' = Tail(s2c))
        => UNCHANGED <<clientVars, clientOut>>
C16_Disposed ==
    ~clientListening
        => \A id \in DOMAIN calls :
              calls[id].cancelled = "buffered"
                 => /\ nSent[<<RequestPromise, id>>] = 0
                    /\ id \notin Range(bufferedRequests)
C16_DisposeCancelsAll ==
    [](C16_Disposed) /\ [][C16_DisposeStep /\ C16_InboundStep]_vars
C16_Witness ==
    /\ ~clientListening
    /\ Len(c2s) >= 2
    /\ c2s[Len(c2s) - 1] = RawCancel(0) /\ c2s[Len(c2s)] = RawCancel(1)
    /\ calls[0].st = "canceled" /\ calls[1].st = "canceled"
    /\ calls[0].mode = "buffered" /\ calls[1].mode = "direct"

\* C17: ChannelServer.dispose() invokes the disposer of every request still
\* registered exactly once and sends no message on the transport: in
\* particular no ResponsePromiseError goes out for the calls it cancels.
C17_DisposeStep ==
    (serverState = "alive" /\ serverState' = "disposed")
        => /\ \A id \in Ids :
                 disposerCalls'[id] = disposerCalls[id]
                                      + (IF id \in DOMAIN srvActiveRequests THEN 1 ELSE 0)
           /\ s2c' = s2c
           /\ nSrvSent' = nSrvSent
C17_DisposeSendsNothing == [][C17_DisposeStep]_vars

\* C18: when the transport's send throws while the ChannelClient sends a
\* message, nothing reaches the transport and the operation goes on as after
\* a successful send: a new call is pending with its handler registered and
\* the id counter advanced, the client is Idle as a sender is, and no call is
\* rejected by the failure (a call is only ever rejected by an error response
\* of the server).
C18_FailedSendStep ==
    (sendThrows /\ sendThrows' /\ nSent' # nSent)
        => /\ c2s' = c2s
           /\ state' = Idle
           /\ \A id \in DOMAIN calls' :
                 IF id \in DOMAIN calls
                 THEN calls'[id].st = "rejected" => calls[id].st = "rejected"
                 ELSE /\ calls'[id].st = "pending"
                      /\ id \in handlers'
                      /\ id \in Range(activeRequests')
                      /\ lastRequestId' = id + 1
           /\ \A id \in DOMAIN streams : id \in handlers'
C18_RejectedByServerOnly ==
    \A id \in DOMAIN calls :
        calls[id].st = "rejected" => nSrvSent[<<ResponsePromiseError, id>>] > 0
C18_SendFailureSwallowed == [](C18_RejectedByServerOnly) /\ [][C18_FailedSendStep]_vars
C18_Witness ==
    /\ sendThrows
    /\ state = Idle
    /\ 0 \in DOMAIN calls
    /\ calls[0].mode = "direct" /\ calls[0].st = "pending"
    /\ nSent[<<RequestPromise, 0>>] = 1
    /\ c2s = <<>> /\ ops = <<>>
    /\ 0 \in handlers /\ lastRequestId = 1

\* C19: a RequestPromise that names a channel not registered when the server
\* processes it is answered at once by exactly one ResponsePromiseError for
\* its id and by nothing else, later registrations included; a request that
\* names a registered channel is served by the implementation registered
\* last under that name.
C19_RegistrationsOf(channelName) ==
    SelectSeq(registered, LAMBDA r : r[1] = channelName)
C19_ServerStep ==
    (/\ serverState = "alive" /\ c2s # <<>> /\ c2s' = Tail(c2s)
     /\ Head(c2s).type = RequestPromise)
        => LET request == Head(c2s)
               regs == C19_RegistrationsOf(request.channelName)
           IN IF regs = <<>>
              THEN /\ Len(s2c') = Len(s2c) + 1
                   /\ s2c'[Len(s2c')].type = ResponsePromiseError
                   /\ s2c'[Len(s2c')].id = request.id
                   /\ s2c'[Len(s2c')].data.name = "TypeError"
              ELSE ops'[request.id].channel = regs[Len(regs)][2]
C19_RegisterStep ==
    (registered' # registered /\ serversCreated' = serversCreated)
        => UNCHANGED <<s2c, nSrvSent, ops, srvActiveRequests>>
C19_AnsweredOnce ==
    \A id \in DOMAIN ops :
        ops[id].channel = "none"
            => /\ nSrvSent[<<ResponsePromiseError, id>>] = 1
               /\ nSrvSent[<<ResponsePromiseSuccess, id>>] = 0
               /\ nSrvSent[<<ResponsePromiseErrorObj, id>>] = 0
               /\ calls[id].st \in {"pending", "rejected"}
C19_UnregisteredChannelRejects ==
    [](C19_AnsweredOnce) /\ [][C19_ServerStep /\ C19_RegisterStep]_vars
C19_Witness ==
    /\ registered = <<<<"ch", "a">>, <<"ch", "b">>>>
    /\ DOMAIN ops = {0, 1}
    /\ ops[0].channel = "none" /\ ops[1].channel = "b"
    /\ calls[0].st = "rejected" /\ calls[0].result.name = "TypeError"
    /\ calls[1].st = "resolved"

\* C20: on a transport shared by a ChannelClient and a ChannelServer only the
\* responses of the peer's server reach the client's handlers: a request of
\* the peer (RequestPromise, RequestPromiseCancel, RequestEventListen,
\* RequestEventDispose) never fires a client event stream nor settles a
\* client call, whatever id it carries.
C20_RequestStep ==
    (/\ clientListening /\ s2c # <<>> /\ s2c' = Tail(s2c)
     /\ Head(s2c).type \in RequestTypes)
        => UNCHANGED <<calls, streams>>
C20_OnlyResponsesDispatched == [][C20_RequestStep]_vars

\* C27: when the last subscriber of an event stream leaves while the client
\* is still Uninitialized, nothing is sent for the stream at that moment, and
\* the initialization that follows sends a RequestEventListen only for the
\* streams that have a subscriber then: the abandoned stream gets neither a
\* RequestEventListen nor a RequestEventDispose.
C27_Step ==
    /\ (state = Uninitialized /\ state' = Uninitialized) => UNCHANGED <<c2s, nSent>>
    /\ \A i \in DOMAIN streams :
          /\ nSent'[<<RequestEventListen, i>>] # nSent[<<RequestEventListen, i>>]
                => streams'[i].subs # {}
          /\ (state = Uninitialized /\ streams[i].subs # {} /\ streams'[i].subs = {})
                => /\ nSent'[<<RequestEventListen, i>>] = 0
                   /\ nSent'[<<RequestEventDispose, i>>] = 0
          /\ (state = Uninitialized /\ state' = Idle /\ streams[i].subs = {})
                => /\ nSent'[<<RequestEventListen, i>>] = 0
                   /\ nSent'[<<RequestEventDispose, i>>] = 0
C27_AbandonedListenNeverSent == [][C27_Step]_vars
C27_Witness ==
    /\ state = Idle
    /\ 0 \in DOMAIN streams
    /\ streams[0].subs = {} /\ streams[0].subscribes = 1
    /\ nSent[<<RequestEventListen, 0>>] = 0
    /\ nSent[<<RequestEventDispose, 0>>] = 0

\* C28: the server keeps a pending-request entry for a RequestPromise id only
\* while the operation runs: once a terminal response for the id was sent, or
\* a cancel for it was processed, the pending-request map has no entry for it,
\* also when the channel's call returned an already settled result.
C28_EntryOnlyWhileRunning ==
    \A id \in DOMAIN ops :
        ops[id].st = "settled" => id \notin DOMAIN srvActiveRequests

\* C29: the client's handler map has no entry for an id once its call got a
\* terminal response, once its sent call was cancelled by the caller, and
\* once the last subscriber of its event stream has unsubscribed.
C29_HandlerDestroyed ==
    /\ \A id \in DOMAIN calls :
          /\ calls[id].st \in {"resolved", "rejected"} => id \notin handlers
          /\ (calls[id].st = "canceled" /\ calls[id].cancelled = "sent") => id \notin handlers
    /\ \A id \in DOMAIN streams :
          (streams[id].subscribes > 0 /\ streams[id].subs = {}) => id \notin handlers

\* C30: a RequestEventListen that names a channel not registered on the
\* server raises no exception out of the server's message handler and
\* registers no disposer under its id.
C30_UnknownListenIsHarmless ==
    /\ srvUncaught = 0
    /\ \A id \in DOMAIN streams :
          streams[id].channelName \notin DOMAIN channels => id \notin DOMAIN srvActiveRequests

\* C21: the id an IPCClient announces is the first message on its transport,
\* ahead of the ResponseInitialize of its ChannelServer and of every request
\* of its ChannelClient; the IPCServer takes exactly that first message as
\* the connection id, and the message is never handled as a protocol message.
C21_AnnouncementLeads ==
    /\ \A i \in 2 .. Len(s2c) : s2c[i].type # NoId
    /\ (DOMAIN channelClients = {} /\ s2c # <<>>) => Head(s2c).type = NoId
    /\ DOMAIN channelClients # {} => \A i \in DOMAIN s2c : s2c[i].type # NoId
    /\ DOMAIN channelClients = {} => state = Uninitialized /\ peerRequests <= Len(s2c)
C21_FirstMessageStep ==
    /\ (s2c # <<>> /\ s2c' = Tail(s2c) /\ Head(s2c).type = NoId)
          => /\ DOMAIN channelClients = {}
             /\ DOMAIN channelClients' = {Head(s2c).id}
             /\ state' = state
             /\ \A id \in DOMAIN streams : streams'[id] = streams[id]
    /\ DOMAIN channelClients' # DOMAIN channelClients
          => s2c # <<>> /\ Head(s2c).type = NoId /\ s2c' = Tail(s2c)
C21_IdAnnouncedFirst == [](C21_AnnouncementLeads) /\ [][C21_FirstMessageStep]_vars
C21_Witness ==
    /\ DOMAIN channelClients = {"c1"}
    /\ state = Idle
    /\ peerRequests > 0
    /\ s2c = <<>>

\* C22: a connection's ChannelServer/ChannelClient pair and its registry
\* entry exist only once the connection's first message, the announced id,
\* has been received; a disconnected connection has its pair disposed; and
\* the registry has an entry for an id exactly when some connection that
\* announced that id is registered and has not disconnected.
C22_RegistryMatchesConnections ==
    /\ \A k \in Connections :
          /\ connections[k].pair # "none"
                => connections[k].peer /\ connections[k].inbox = <<>>
          /\ connections[k].phase = "disconnected" => connections[k].pair # "alive"
    /\ \A c \in AnnouncedIds :
          c \in DOMAIN channelClients
             <=> \E k \in Connections :
                    connections[k].phase = "registered" /\ connections[k].id = c

\* C23: the disconnection of one connection leaves every other connection as
\* it was: its pair, the requests handed to it, and its registry entry, also
\* when both connections announced the same id.
C23_DisconnectStep ==
    \A k \in Connections :
        (connections[k].phase = "registered" /\ connections'[k].phase = "disconnected")
            => \A j \in Connections \ {k} :
                  /\ connections'[j] = connections[j]
                  /\ (/\ connections[j].id \in DOMAIN channelClients
                      /\ channelClients[connections[j].id] = j)
                        => /\ connections[j].id \in DOMAIN channelClients'
                           /\ channelClients'[connections[j].id] = j
C23_DisconnectIsLocal == [][C23_DisconnectStep]_vars

\* C24: a routed call whose router returns id X is handed to no ChannelClient
\* while no connection is registered under X; the registration of a
\* connection that announced X hands it over, exactly once, to that
\* connection's ChannelClient; the registration of a connection with another
\* id leaves it waiting.
C24_Holders(i) == {k \in Connections : i \in Range(connections[k].forwarded)}
C24_MatchedById ==
    \A i \in DOMAIN routed :
        /\ routed[i].st = "waiting"
              => C24_Holders(i) = {} /\ routed[i].target \notin DOMAIN channelClients
        /\ routed[i].st = "forwarded"
              => /\ Cardinality(C24_Holders(i)) = 1
                 /\ \A k \in C24_Holders(i) :
                       /\ connections[k].id = routed[i].target
                       /\ Len(SelectSeq(connections[k].forwarded, LAMBDA j : j = i)) = 1
C24_RegistrationStep ==
    \A k \in Connections :
        (connections[k].phase = "connected" /\ connections'[k].phase = "registered")
            => \A i \in DOMAIN routed :
                  routed[i].st = "waiting"
                     => routed'[i].st = IF routed[i].target = connections'[k].id
                                        THEN "forwarded" ELSE "waiting"
C24_RoutedCallMatchedById == [](C24_MatchedById) /\ [][C24_RegistrationStep]_vars
C24_Witness ==
    /\ Len(routed) = 2
    /\ routed[1].target = "c2" /\ routed[1].st = "waiting"
    /\ routed[2].target = "c1" /\ routed[2].st = "forwarded"
    /\ \E k \in Connections :
          /\ connections[k].id = "c1" /\ connections[k].released = 1
          /\ connections[k].forwarded = <<2>>

\* C25: a call on a delayed channel reaches the target channel only once the
\* promise of the target has resolved; listen returns its stream at once, the
\* target's listen is attached only once the target is available, and a
\* subscriber of the stream receives exactly the events the target produces
\* after that attachment, never an earlier one.
C25_DelayedUntilResolved ==
    /\ \A i \in DOMAIN delayedChannel.calls :
          delayedChannel.calls[i] # "deferred" <=> delayedChannel.resolved
    /\ \A i \in DOMAIN delayedChannel.listens :
          LET listen == delayedChannel.listens[i] IN
          /\ listen.attached <=> delayedChannel.resolved
          /\ ~listen.attached => listen.got = <<>>
          /\ listen.attached
                => listen.got = [j \in 1 .. (delayedChannel.produced - listen.attachedAt) |->
                                   listen.attachedAt + j]
C25_Witness ==
    /\ delayedChannel.resolved
    /\ delayedChannel.calls # <<>> /\ delayedChannel.calls[1] = "delegated"
    /\ \E i \in DOMAIN delayedChannel.listens :
          /\ delayedChannel.listens[i].createdAt = 0
          /\ delayedChannel.listens[i].attachedAt = 1
          /\ delayedChannel.listens[i].got = <<2>>

\* C26: nothing reaches the channel wrapped by a next-tick channel before a
\* timeout set by a use of it has fired; didTick only ever goes from false to
\* true; a call or listen made once didTick is true reaches the wrapped
\* channel in the same step, and one made before waits for its own timeout.
C26_Uses == Len(nextTickChannel.timers) + Len(nextTickChannel.reached)
C26_NothingBeforeTick ==
    /\ nextTickChannel.reached # <<>> => nextTickChannel.didTick
    /\ ~nextTickChannel.didTick => nextTickChannel.reached = <<>>
    /\ nextTickChannel.reached # <<>> => ~nextTickChannel.reached[1].sync
C26_Step ==
    /\ nextTickChannel.didTick => nextTickChannel'.didTick
    /\ C26_Uses' > C26_Uses
          => IF nextTickChannel.didTick
             THEN /\ Len(nextTickChannel'.reached) = Len(nextTickChannel.reached) + 1
                  /\ nextTickChannel'.reached[Len(nextTickChannel'.reached)].sync
                  /\ nextTickChannel'.timers = nextTickChannel.timers
             ELSE /\ nextTickChannel'.reached = nextTickChannel.reached
                  /\ Len(nextTickChannel'.timers) = Len(nextTickChannel.timers) + 1
                  /\ ~nextTickChannel'.didTick
C26_FirstUseWaitsForTick == [](C26_NothingBeforeTick) /\ [][C26_Step]_vars
C26_Witness ==
    /\ nextTickChannel.didTick
    /\ Len(nextTickChannel.reached) = 2
    /\ ~nextTickChannel.reached[1].sync
    /\ nextTickChannel.reached[2].sync

\* the position in msgs of the RequestPromise with id, 0 when there is none
SentAt(msgs, id) ==
    IF \E k \in 1 .. Len(msgs) : msgs[k].type = RequestPromise /\ msgs[k].id = id
    THEN CHOOSE k \in 1 .. Len(msgs) : msgs[k].type = RequestPromise /\ msgs[k].id = id
    ELSE 0

\* C31: a call made while the client is Idle is handed to the transport in
\* the step that makes it and is never buffered; while the client is Idle the
\* buffer is empty and stays empty; a call made by an initialization listener
\* during the step to Idle is sent in that step, ahead of the flush, and the
\* buffered calls that are flushed in that step are sent in the order in
\* which they were buffered.
C31_IdleBufferEmpty ==
    state = Idle =>
        /\ bufferedRequests = <<>>
        /\ \A id \in DOMAIN calls : calls[id].mode = "direct" => nSent[<<RequestPromise, id>>] = 1
C31_CallStep ==
    /\ state = Idle => bufferedRequests' = <<>>
    /\ \A id \in DOMAIN calls' \ DOMAIN calls :
          /\ state = Idle =>
                /\ calls'[id].mode = "direct"
                /\ NewlySent = <<Msg(RequestPromise, id, calls'[id].channelName, NoData)>>
          /\ (state = Uninitialized /\ state' = Idle) =>
                /\ calls'[id].mode = "direct"
                /\ SentAt(NewlySent, id) > 0
                /\ \A j \in Range(bufferedRequests) :
                      SentAt(NewlySent, j) > 0 => SentAt(NewlySent, id) < SentAt(NewlySent, j)
    /\ (state = Uninitialized /\ state' = Idle) =>
          \A a, b \in 1 .. Len(bufferedRequests) :
              (a < b /\ SentAt(NewlySent, bufferedRequests[a]) > 0
                     /\ SentAt(NewlySent, bufferedRequests[b]) > 0)
                  => SentAt(NewlySent, bufferedRequests[a]) < SentAt(NewlySent, bufferedRequests[b])
C31_IdleCallsGoOutAtOnce == [](C31_IdleBufferEmpty) /\ [][C31_CallStep]_vars
C31_Witness ==
    /\ state = Idle
    /\ Len(c2s) = 2
    /\ c2s[1].type = RequestPromise /\ c2s[2].type = RequestPromise
    /\ c2s[1].id = 1 /\ c2s[2].id = 0
    /\ calls[0].mode = "buffered" /\ calls[1].mode = "direct"

\* the outcome of call id at the caller is the one of its remote operation
C32_Matches(id) ==
    /\ id \in DOMAIN ops
    /\ ops[id].st = "settled"
    /\ \/ /\ calls[id].st = "resolved"
          /\ ops[id].result.k = "val"
          /\ calls[id].result = ops[id].result
       \/ /\ calls[id].st = "rejected"
          /\ ops[id].result.k = "Error"
          /\ calls[id].result.k = "Error"
          /\ calls[id].result.message = ops[id].result.message
          /\ calls[id].result.name = ops[id].result.name
       \/ /\ calls[id].st = "rejected"
          /\ ops[id].result.k = "obj"
          /\ calls[id].result = ops[id].result

\* C32: with a transport that delivers every message in the end, a peer
\* whose ChannelServer is constructed and remote operations that settle,
\* every call, made before or after the initialization, that its caller does
\* not cancel settles in the end, resolved with the data of a success and
\* rejected with the error of a failure.
C32_CallsSettle ==
    \A id \in 0 .. (MaxRemoteCalls - 1) :
        (id \in DOMAIN calls)
            ~> (id \in DOMAIN calls /\ (calls[id].st = "canceled" \/ C32_Matches(id)))
C32_Witness ==
    \E id \in DOMAIN calls :
        /\ calls[id].mode = "buffered"
        /\ calls[id].st = "resolved"
        /\ calls[id].cancelled = "no"
        /\ C32_Matches(id)
        /\ s2c = <<>>

\* C33: the server never holds more than one live subscription to the
\* channel's event, or more than one running operation, under one request
\* id: a disposer is registered under an id only when the one registered
\* under it before has been disposed.
C33_OneLivePerId ==
    \A i \in Ids :
        /\ Cardinality({k \in 1 .. Len(eventListeners) : eventListeners[k] = i}) <= 1
        /\ (i \in DOMAIN ops /\ ops[i].st = "running") => i \notin Range(eventListeners)

\* C34: the result of a call settles at most once: a terminal response that
\* arrives after the caller canceled the call leaves the call canceled, and
\* a terminal response or a progress that arrives for a call that has
\* settled changes neither its outcome nor its progress.
C34_SettledStep ==
    \A id \in DOMAIN calls :
        calls[id].st # "pending" =>
            /\ calls'[id].st = calls[id].st
            /\ calls'[id].result = calls[id].result
            /\ calls'[id].progress = calls[id].progress
C34_SettlesAtMostOnce == [][C34_SettledStep]_vars
C34_Witness ==
    \E id \in DOMAIN calls :
        /\ calls[id].st = "canceled"
        /\ calls[id].cancelled = "sent"
        /\ nSrvSent[<<ResponsePromiseSuccess, id>>] = 1
        /\ peerRequests = 2
        /\ clientListening
        /\ s2c = <<>>

\* C35: the client sends a RequestPromiseCancel only for a call that is
\* pending when it is sent, and at most one per request id, however the
\* caller's cancel, the client's dispose and the arrival of the terminal
\* response interleave.
C35_CancelStep ==
    \A id \in Ids :
        nSent'[<<RequestPromiseCancel, id>>] # nSent[<<RequestPromiseCancel, id>>] =>
            /\ id \in DOMAIN calls
            /\ calls[id].st = "pending"
            /\ nSent[<<RequestPromiseCancel, id>>] = 0
            /\ nSent'[<<RequestPromiseCancel, id>>] = 1
C35_AtMostOneCancel == \A id \in Ids : nSent[<<RequestPromiseCancel, id>>] <= 1
C35_NoCancelAfterSettlement == [](C35_AtMostOneCancel) /\ [][C35_CancelStep]_vars
C35_Witness ==
    /\ ~clientListening
    /\ \E i, j \in DOMAIN calls :
          /\ calls[i].st = "resolved"
          /\ nSent[<<RequestPromiseCancel, i>>] = 0
          /\ calls[j].cancelled = "sent"
          /\ nSent[<<RequestPromiseCancel, j>>] = 1

\* C36: in the step that takes the client from Uninitialized to Idle, the
\* RequestEventListen of every stream subscribed before is sent ahead of the
\* RequestPromise of every buffered call, whether the stream was obtained and
\* subscribed before or after the call was made; the requests made before
\* the initialization therefore need not reach the transport in id order.
C36_HandshakeStep ==
    (state = Uninitialized /\ state' = Idle) =>
        /\ \A i \in Range(initListeners) :
              \E k \in 1 .. Len(NewlySent) :
                  NewlySent[k].type = RequestEventListen /\ NewlySent[k].id = i
        /\ \A k, l \in 1 .. Len(NewlySent) :
              (/\ NewlySent[k].type = RequestEventListen
               /\ NewlySent[l].type = RequestPromise
               /\ NewlySent[l].id \in Range(bufferedRequests))
                  => k < l
C36_ListensBeforeFlush == [][C36_HandshakeStep]_vars
C36_Witness ==
    /\ state = Idle
    /\ Len(c2s) = 2
    /\ c2s[1].type = RequestEventListen /\ c2s[1].id = 1
    /\ c2s[2].type = RequestPromise /\ c2s[2].id = 0
    /\ calls[0].mode = "buffered"

\* C37: the ChannelServer that the IPCServer creates for a connection has
\* exactly the channels registered on the IPCServer at that moment; a
\* channel registered on the IPCServer later is not added to it, and a call
\* of that connection's peer naming it is answered with the error of a call
\* on an unregistered channel.
C37_SnapshotStep ==
    /\ \A k \in Connections :
          (connections[k].phase # "registered" /\ connections'[k].phase = "registered")
              => connections'[k].channels = ipcChannels
    /\ ipcChannels' # ipcChannels =>
          \A k \in Connections : connections'[k].channels = connections[k].channels
C37_AnsweredFromSnapshot ==
    \A k \in Connections :
        \A i \in 1 .. Len(connections[k].answers) :
            LET a == connections[k].answers[i] IN
            IF a.channelName \in DOMAIN connections[k].channels
            THEN a.answer.type = ResponsePromiseSuccess
            ELSE /\ a.answer.type = ResponsePromiseError
                 /\ a.answer.data.name = "TypeError"
C37_ChannelsFixedAtCreation == [](C37_AnsweredFromSnapshot) /\ [][C37_SnapshotStep]_vars
C37_Witness ==
    \E k \in Connections :
        /\ connections[k].phase = "registered"
        /\ DOMAIN connections[k].channels = {"ch"}
        /\ DOMAIN ipcChannels = {"ch", "other"}
        /\ Len(connections[k].answers) = 2
        /\ connections[k].answers[1].channelName = "ch"
        /\ connections[k].answers[1].answer.type = ResponsePromiseSuccess
        /\ connections[k].answers[2].channelName = "other"
        /\ connections[k].answers[2].answer.type = ResponsePromiseError

\* the items of the arguments in args, one after the other
RECURSIVE Concatenated(_)
Concatenated(args) ==
    IF args = <<>> THEN <<>> ELSE Head(args).items \o Concatenated(Tail(args))

C39_Delivered ==
    /\ Concatenated(collector.given) \o collector.batch
          = [i \in 1 .. collector.added |-> i]
    /\ collector.timers <= 1
    /\ collector.lastOp = "flush" =>
          /\ collector.batch = <<>>
          /\ collector.batchSize = 0
          /\ collector.timers = 0
C39_AddStep ==
    collector'.adds # collector.adds =>
        IF collector.totalNumberCompleted < START_BATCH_AFTER_COUNT
        THEN collector'.batch = <<>> /\ Len(collector'.given) = Len(collector.given) + 1
        ELSE IF collector'.batchSize + collector'.totalNumberCompleted
                    - collector.totalNumberCompleted >= collector.maxBatchSize
             THEN collector'.batch = <<>>
             ELSE collector'.given = collector.given /\ collector'.timers = 1
C39_CollectorContract == [](C39_Delivered) /\ [][C39_AddStep]_vars

\* the search made in this step, and the rows of its cache before the step
C40_New == searches'[Len(searches')]
C40_RowsBefore ==
    IF C40_New.cacheKey \in DOMAIN caches THEN caches[C40_New.cacheKey].rows ELSE <<>>
C40_Searching == Len(searches') = Len(searches) + 1
C40_FromCache == C40_New.origin # Len(searches')

\* a search whose engine completed has its row under its pattern, in the
\* cache under its key, for as long as that cache is not cleared; and what a
\* search returns was produced for the cache that was there when it was made
C40_Stored ==
    \A i \in 1 .. Len(searches) :
        /\ searches[searches[i].origin].cacheKey = searches[i].cacheKey
        /\ searches[searches[i].origin].gen = searches[i].gen
        /\ (/\ searches[i].origin = i /\ searches[i].st = "done"
            /\ searches[i].cacheKey \in DOMAIN caches
            /\ caches[searches[i].cacheKey].gen = searches[i].gen)
              => \E r \in 1 .. Len(caches[searches[i].cacheKey].rows) :
                    caches[searches[i].cacheKey].rows[r]
                        = [filePattern |-> searches[i].filePattern, origin |-> i]
\* after clearCache the next search with the key runs its own engine
C40_ClearedStep ==
    (C40_Searching /\ C40_New.cacheKey \notin DOMAIN caches) =>
        ~C40_FromCache /\ C40_New.gen = Len(searches')

\* C40 as stated: a sorted file search with a cacheKey stores its results
\* under the key and its pattern; a later search with that key whose pattern
\* has a cached pattern as a prefix is answered from the cache without
\* running the engine; after clearCache the next search with the key runs
\* the engine and returns nothing of the cleared cache.
C40_PrefixStep ==
    (C40_Searching /\ \E r \in 1 .. Len(C40_RowsBefore) :
                         /\ searches[C40_RowsBefore[r].origin].st = "done"
                         /\ StartsWith(C40_New.filePattern, C40_RowsBefore[r].filePattern))
        => C40_FromCache
C40_PrefixAnsweredFromCache ==
    [](C40_Stored) /\ [][C40_ClearedStep /\ C40_PrefixStep]_vars

\* C40 as amended: the later search is answered from the cache exactly when
\* a cached pattern is a prefix of its pattern and, if its pattern contains
\* a path separator, that cached pattern contains one too; otherwise the
\* engine runs, also when a cached pattern is a prefix.
C40_ServingStep ==
    C40_Searching =>
        (C40_FromCache <=>
            \E r \in 1 .. Len(C40_RowsBefore) :
                /\ StartsWith(C40_New.filePattern, C40_RowsBefore[r].filePattern)
                /\ HasSep(C40_New.filePattern) => HasSep(C40_RowsBefore[r].filePattern))
C40_ServedFromCache ==
    [](C40_Stored) /\ [][C40_ClearedStep /\ C40_ServingStep]_vars
C40_Witness ==
    /\ Len(searches) = 3
    /\ searches[1].filePattern = <<"a">> /\ searches[1].st = "done"
    /\ searches[2].filePattern = <<"a", "/", "b">> /\ searches[2].origin = 2
    /\ searches[3].filePattern = <<"a", "b">> /\ searches[3].origin = 1
    /\ searches[3].gen = 1
====
